---- MODULE Spec2Model ----
(***************************************************************************)
(* A model of the software/compute rasterizer of 3D-Graphics-EngineV2:     *)
(* the depth-tested frame buffer (RasterHelper.h), the near-plane clipper  *)
(* (main.cpp), the scalar triangle path (DrawTriangle / fillTriangle) and  *)
(* the compute path (GPU_DrawTriangle, GLCompute).                         *)
(*                                                                         *)
(* Numbers.  A C `float` is modelled as an integer count of 1/Unit, with   *)
(* Unit = 2^FracBits.  Sums and differences of such values are exact; a    *)
(* product or a quotient is rounded to the nearest grid value, ties to     *)
(* even, as IEEE-754 rounds to the nearest representable value.  A         *)
(* division by zero gives NotFinite (an infinity or a NaN), which fails    *)
(* every ordered comparison the code makes with it.                        *)
(*                                                                         *)
(* Colors.  A packed 32-bit ARGB word is the pair <<hi, lo>> of its two    *)
(* 16-bit halves: hi = a*256 + r, lo = g*256 + b.                          *)
(*                                                                         *)
(* Locals.  A local variable of the code that is read many times is bound  *)
(* as the element of a one-element set, The({ e(x) : x \in {v} }), so that  *)
(* v is computed once, as the code computes it.                            *)
(***************************************************************************)
EXTENDS Integers, Sequences, FiniteSets, TLC

VARIABLES
    STAR_BUFFER,      \* RasterHelper.h: the star field copied by every clear
    starsGenerated,   \* RasterHelper.h: generateStarField ran
    SCREEN_ARRAY,     \* Defines.h: the color buffer, index y*RASTER_WIDTH+x
    DEPTH_ARRAY,      \* Defines.h: the depth buffer, same indexing
    cleared,          \* a clearColorBuffer has run (the buffers are initialized)
    writes,           \* history: the direct pixelDrawer calls since the last clear
    clipIn,           \* main.cpp: the arguments of the clipping call under test
    clipOut,          \* main.cpp: what the clipping call returned and wrote
    VertexShader,     \* Shaders.h: the vertex shader hook, "nullptr" or "PS_WVP"
    SV_WorldMatrix,   \* Shaders.h
    SV_ViewMatrix,    \* Shaders.h
    SV_ProjectionMatrix,      \* Shaders.h
    SV_LightDirection,        \* Shaders.h
    SV_AmbientLight,          \* Shaders.h
    SV_SunColor,              \* Shaders.h
    g_currentLightingFactor,  \* RasterHelper.h: set by DrawTriangle
    useGPU,           \* main.cpp: the backend in use
    g_GLCompute,      \* GLCompute.h: the fields of the global GLCompute
    pc,               \* main.cpp: where main() is
    scene,            \* the triangles of the mesh rendered every frame
    drawn,            \* MaterialMesh::render: triangles drawn so far this frame
    lastDraw,         \* history: what the last DrawTriangle call did
    presented,        \* history: the frame each backend last handed to RS_Update
    calls,            \* history: the GLCompute calls under test since the last beginFrame
    issued            \* history: what the last dispatch under test asked of OpenGL

rasterVars == <<STAR_BUFFER, starsGenerated, SCREEN_ARRAY, DEPTH_ARRAY, cleared, writes>>

clipVars == <<clipIn, clipOut>>

shaderVars ==
    <<VertexShader, SV_WorldMatrix, SV_ViewMatrix, SV_ProjectionMatrix,
      SV_LightDirection, SV_AmbientLight, SV_SunColor, g_currentLightingFactor>>

gpuVars == <<useGPU, g_GLCompute>>

frameVars == <<pc, scene, drawn, lastDraw, presented>>

drawVars == <<shaderVars, gpuVars, frameVars>>

hostVars == <<calls, issued>>

vars == <<rasterVars, clipVars, drawVars, hostVars>>

----------------------------------------------------------------------------
(* Bounds of the model *)

FracBits == 4
RASTER_WIDTH == 2
RASTER_HEIGHT == 2
MaxWrites == 2
MaxTriangles == 2
MaxCalls == 3

----------------------------------------------------------------------------
(* float arithmetic *)

Unit == 2 ^ FracBits

\* the element of a one-element set
The(S) == CHOOSE r \in S : TRUE

NotFinite == 0 - (2 ^ 30)

Abs(x) == IF x < 0 THEN 0 - x ELSE x

Sign(x) == IF x < 0 THEN 0 - 1 ELSE 1

\* n / d for d > 0, rounded to the nearest integer, ties to even
RoundDiv(n, d) ==
    LET q == n \div d
        r == n % d
    IN  IF 2 * r < d THEN q
        ELSE IF 2 * r > d THEN q + 1
        ELSE IF q % 2 = 0 THEN q ELSE q + 1

\* the float nearest to the real number n / d
FromRatio(n, d) == RoundDiv(n * Unit, d)

FromInt(n) == n * Unit

Fmul(a, b) ==
    The({ IF x = NotFinite \/ y = NotFinite THEN NotFinite
          ELSE RoundDiv(x * y, Unit) : x \in {a}, y \in {b} })

Fdiv(a, b) ==
    The({ IF x = NotFinite \/ y = NotFinite \/ y = 0 THEN NotFinite
          ELSE RoundDiv(Sign(y) * x * Unit, Abs(y)) : x \in {a}, y \in {b} })

Fadd(a, b) ==
    The({ IF x = NotFinite \/ y = NotFinite THEN NotFinite ELSE x + y :
          x \in {a}, y \in {b} })

Fsub(a, b) ==
    The({ IF x = NotFinite \/ y = NotFinite THEN NotFinite ELSE x - y :
          x \in {a}, y \in {b} })

\* ordered comparisons: false when an operand is not finite
FLt(a, b) == \E x \in {a}, y \in {b} : x # NotFinite /\ y # NotFinite /\ x < y

FGe(a, b) == \E x \in {a}, y \in {b} : x # NotFinite /\ y # NotFinite /\ x >= y

FLe(a, b) == \E x \in {a}, y \in {b} : x # NotFinite /\ y # NotFinite /\ x <= y

\* (int)f : truncation toward zero
Trunc(f) == The({ Sign(x) * (Abs(x) \div Unit) : x \in {f} })

\* sqrtf: the float nearest to the square root
Fsqrt(a) ==
    The({ IF x = NotFinite \/ x < 0 THEN NotFinite
          ELSE The({ IF x * Unit - r * r > r THEN r + 1 ELSE r :
                     r \in { k \in 0 .. (x + Unit) :
                                k * k <= x * Unit /\ x * Unit < (k + 1) * (k + 1) } }) :
          x \in {a} })

----------------------------------------------------------------------------
(* Vectors, vertices and matrices: Defines.h, MathEq.h *)

Vec3(x, y, z) == [x |-> x, y |-> y, z |-> z]

Vec4(x, y, z, w) == [x |-> x, y |-> y, z |-> z, w |-> w]

Vertex(pos, color, u, v) == [pos |-> pos, color |-> color, u |-> u, v |-> v]

\* a matrix4x4 is the tuple of its four rows m[0] .. m[3], each a tuple of
\* four floats; m[i][j] of the code is M[i + 1][j + 1] here
MatrixIdentity ==
    << <<FromInt(1), 0, 0, 0>>,
       <<0, FromInt(1), 0, 0>>,
       <<0, 0, FromInt(1), 0>>,
       <<0, 0, 0, FromInt(1)>> >>

\* matrixTranslation: the translation is the fourth row
matrixTranslation(trans) ==
    << <<FromInt(1), 0, 0, 0>>,
       <<0, FromInt(1), 0, 0>>,
       <<0, 0, FromInt(1), 0>>,
       <<trans.x, trans.y, trans.z, trans.w>> >>

\* projectionMatrixMath, given yScale = 1 / tan(FOV / 2)
projectionMatrixMath(yScale, aspect, farplane, nearplane) ==
    << <<Fmul(yScale, aspect), 0, 0, 0>>,
       <<0, yScale, 0, 0>>,
       <<0, 0, Fdiv(farplane, Fsub(farplane, nearplane)), FromInt(1)>>,
       <<0, 0, 0 - Fdiv(Fmul(farplane, nearplane), Fsub(farplane, nearplane)), 0>> >>

\* column j of the row vector vec times mat
RowTimesColumn(mat, vec, j) ==
    Fadd(Fadd(Fadd(Fmul(mat[1][j], vec.x), Fmul(mat[2][j], vec.y)),
              Fmul(mat[3][j], vec.z)),
         Fmul(mat[4][j], vec.w))

matrixMultiplicationVec(mat, vec) ==
    The({ Vec4(RowTimesColumn(mat, v, 1), RowTimesColumn(mat, v, 2),
               RowTimesColumn(mat, v, 3), RowTimesColumn(mat, v, 4)) : v \in {vec} })

\* matrixMultiplicationVert sets the position of the vertex it returns and
\* nothing else: color, u and v are for its callers to fill in
matrixMultiplicationVert(m, i) == [pos |-> matrixMultiplicationVec(m, i.pos)]

\* a mutant of matrixMultiplicationMatrix: the factors the other way round
matrixMultiplicationMatrix_swapped(m1, m2) ==
    [i \in 1 .. 4 |->
        [j \in 1 .. 4 |->
            Fadd(Fadd(Fadd(Fmul(m2[i][1], m1[1][j]), Fmul(m2[i][2], m1[2][j])),
                      Fmul(m2[i][3], m1[3][j])),
                 Fmul(m2[i][4], m1[4][j]))]]

matrixMultiplicationMatrix(m1, m2) ==
    [i \in 1 .. 4 |->
        [j \in 1 .. 4 |->
            Fadd(Fadd(Fadd(Fmul(m1[i][1], m2[1][j]), Fmul(m1[i][2], m2[2][j])),
                      Fmul(m1[i][3], m2[3][j])),
                 Fmul(m1[i][4], m2[4][j]))]]

\* matrix3x3MulVec3: the row vector v times the 3 x 3 matrix m
matrix3x3MulVec3(m, v) ==
    Vec3(Fadd(Fadd(Fmul(m[1][1], v.x), Fmul(m[2][1], v.y)), Fmul(m[3][1], v.z)),
         Fadd(Fadd(Fmul(m[1][2], v.x), Fmul(m[2][2], v.y)), Fmul(m[3][2], v.z)),
         Fadd(Fadd(Fmul(m[1][3], v.x), Fmul(m[2][3], v.y)), Fmul(m[3][3], v.z)))

\* matrix4Inverse: trans is initialized row by row with xx, yx, zx, xy, ...
\* of trix, which makes it the transpose of the upper 3 x 3 block; the
\* fourth row is the translation times trans, negated
matrix4Inverse(trix) ==
    The({ The({ << <<trans[1][1], trans[1][2], trans[1][3], 0>>,
                   <<trans[2][1], trans[2][2], trans[2][3], 0>>,
                   <<trans[3][1], trans[3][2], trans[3][3], 0>>,
                   <<0 - invPosi.x, 0 - invPosi.y, 0 - invPosi.z, FromInt(1)>> >> :
                invPosi \in { matrix3x3MulVec3(trans,
                                  Vec3(trix[4][1], trix[4][2], trix[4][3])) } }) :
          trans \in { << <<trix[1][1], trix[2][1], trix[3][1]>>,
                         <<trix[1][2], trix[2][2], trix[3][2]>>,
                         <<trix[1][3], trix[2][3], trix[3][3]>> >> } })

\* an angle by its cosine and sine
Angle(c, sn) == [cos |-> c, sin |-> sn]

matrixRotationX(rotX) ==
    << <<FromInt(1), 0, 0, 0>>,
       <<0, rotX.cos, 0 - rotX.sin, 0>>,
       <<0, rotX.sin, rotX.cos, 0>>,
       <<0, 0, 0, FromInt(1)>> >>

\* Object::updateWorldMatrix of an object that is not rotated about y and z:
\* the scale on the diagonal, times the rotation about x, times the
\* translation
updateWorldMatrix(scale, rotation, position) ==
    matrixMultiplicationMatrix(
        matrixMultiplicationMatrix(<< <<scale.x, 0, 0, 0>>,
                                      <<0, scale.y, 0, 0>>,
                                      <<0, 0, scale.z, 0>>,
                                      <<0, 0, 0, FromInt(1)>> >>,
                                   matrixRotationX(rotation)),
        matrixTranslation(Vec4(position.x, position.y, position.z, FromInt(1))))

\* a mutant of Pack: green is shifted by 4 bits instead of 8
Pack_shift4(a, r, g, b) == The({ <<a * 256 + x, y * 16 + z>> : x \in {r}, y \in {g}, z \in {b} })

\* a packed color from its channels, and the channels of a packed color
Pack(a, r, g, b) == The({ <<a * 256 + x, y * 256 + z>> : x \in {r}, y \in {g}, z \in {b} })
AlphaOf(color) == color[1] \div 256
RedOf(color) == color[1] % 256
GreenOf(color) == color[2] \div 256
BlueOf(color) == color[2] % 256

----------------------------------------------------------------------------
(* The frame buffer: Defines.h, RasterHelper.h *)

NUM_PIXELS == RASTER_HEIGHT * RASTER_WIDTH

Pixels == 0 .. (NUM_PIXELS - 1)

\* packed colors <<a*256 + r, g*256 + b>>
SpaceColor == <<255 * 256, 8>>                 \* 0xFF000008
StarColor == <<255 * 256 + 200, 200 * 256 + 200>>  \* 0xFFC8C8C8, a white star
Red == <<255 * 256 + 255, 0>>                  \* 0xFFFF0000
Cyan == <<255 * 256, 255 * 256 + 255>>         \* 0xFF00FFFF

\* the depth every clear stores: 1.0f
ClearDepth == FromInt(1)

\* generateStarField: dark space everywhere, rand() places the stars; the
\* fields the model lets rand() produce
StarFields ==
    { [i \in Pixels |-> SpaceColor],
      [i \in Pixels |-> IF i = 0 THEN StarColor ELSE SpaceColor] }

\* the frame buffer as a value, so that the drawing code can be folded over it
FrameBuffer(color, depth) == [color |-> color, depth |-> depth]

\* a mutant of pixelDrawer: the depth test accepts equal depth
pixelDrawer_le(fb, x, y, z, color) ==
    IF x < 0 \/ x >= RASTER_WIDTH \/ y < 0 \/ y >= RASTER_HEIGHT THEN fb
    ELSE LET index == y * RASTER_WIDTH + x
         IN  IF FLe(z, fb.depth[index])
             THEN [color |-> [fb.color EXCEPT ![index] = color],
                   depth |-> [fb.depth EXCEPT ![index] = z]]
             ELSE fb

\* a mutant of pixelDrawer: the color is written whatever the depth test says
pixelDrawer_paint(fb, x, y, z, color) ==
    IF x < 0 \/ x >= RASTER_WIDTH \/ y < 0 \/ y >= RASTER_HEIGHT THEN fb
    ELSE LET index == y * RASTER_WIDTH + x
         IN  [color |-> [fb.color EXCEPT ![index] = color],
              depth |-> IF FLt(z, fb.depth[index])
                        THEN [fb.depth EXCEPT ![index] = z]
                        ELSE fb.depth]

\* a mutant of pixelDrawer: the test is on the index, not on the coordinates
pixelDrawer_indexOnly(fb, x, y, z, color) ==
    LET index == y * RASTER_WIDTH + x
    IN  IF index < 0 \/ index >= RASTER_WIDTH * RASTER_HEIGHT THEN fb
        ELSE IF FLt(z, fb.depth[index])
             THEN [color |-> [fb.color EXCEPT ![index] = color],
                   depth |-> [fb.depth EXCEPT ![index] = z]]
             ELSE fb

pixelDrawer(fb, x, y, z, color) ==
    IF x < 0 \/ x >= RASTER_WIDTH \/ y < 0 \/ y >= RASTER_HEIGHT THEN fb
    ELSE LET index == y * RASTER_WIDTH + x
         IN  IF FLt(z, fb.depth[index])
             THEN [color |-> [fb.color EXCEPT ![index] = color],
                   depth |-> [fb.depth EXCEPT ![index] = z]]
             ELSE fb

\* clearColorBuffer: generate the star field once, then copy it and reset depth
clearColorBuffer ==
    /\ STAR_BUFFER' \in (IF starsGenerated THEN {STAR_BUFFER} ELSE StarFields)
    /\ starsGenerated' = TRUE
    /\ SCREEN_ARRAY' = [i \in Pixels |-> STAR_BUFFER'[i]]
    /\ DEPTH_ARRAY' = [i \in Pixels |-> ClearDepth]
    /\ cleared' = TRUE
    /\ writes' = <<>>

\* a clearColorBuffer call on its own
ClearColorBuffer == clearColorBuffer /\ UNCHANGED <<hostVars, clipVars, drawVars>>

\* the inputs of a direct pixelDrawer call
WriteXs == (0 - 1) .. RASTER_WIDTH
WriteYs == (0 - 1) .. RASTER_HEIGHT
WriteDepths == { FromRatio(1, 4), FromRatio(1, 2), FromInt(1) }
\* the k-th write of a frame carries the k-th color, so that a stored color
\* names the write that stored it
White == <<255 * 256 + 255, 255 * 256 + 255>>   \* 0xFFFFFFFF
Green == <<0, 255 * 256>>                      \* 0x0000FF00
WriteColors == <<Red, Cyan, White, Green>>

PixelDrawer(x, y, z, color) ==
    /\ cleared
    /\ Len(writes) < MaxWrites
    /\ Len(writes) < Len(WriteColors)
    /\ LET fb == pixelDrawer(FrameBuffer(SCREEN_ARRAY, DEPTH_ARRAY), x, y, z, color)
       IN  /\ SCREEN_ARRAY' = fb.color
           /\ DEPTH_ARRAY' = fb.depth
    /\ writes' = Append(writes, [x |-> x, y |-> y, z |-> z, color |-> color])
    /\ UNCHANGED <<STAR_BUFFER, starsGenerated, cleared>>
    /\ UNCHANGED <<hostVars, clipVars, drawVars>>

\* the buffers before the first clear hold whatever the allocation left there
GarbageColors == { <<0, 0>>, Cyan }
GarbageDepths == { 0, FromInt(2) }

RasterStart ==
    /\ STAR_BUFFER = [i \in Pixels |-> <<0, 0>>]
    /\ starsGenerated = FALSE
    /\ SCREEN_ARRAY \in { [i \in Pixels |-> c] : c \in GarbageColors }
    /\ DEPTH_ARRAY \in { [i \in Pixels |-> d] : d \in GarbageDepths }
    /\ cleared = FALSE
    /\ writes = <<>>

NextRaster ==
    \/ ClearColorBuffer
    \/ \E x \in WriteXs, y \in WriteYs, z \in WriteDepths :
          PixelDrawer(x, y, z, WriteColors[Len(writes) + 1])

\* no clipping call is under test
ClipIdle == clipIn = [kind |-> "none"] /\ clipOut = [kind |-> "none"]

\* no GLCompute call is under test
HostIdle == calls = <<>> /\ issued = <<>>

----------------------------------------------------------------------------
(* Near-plane clipping: main.cpp (LerpVertex, ClipTriangleToNear, ClipLineToNear) *)

\* static constexpr float kNear = 0.1f
kNear == FromRatio(1, 10)

\* a mutant of LerpVertex: the color is taken from the second vertex
LerpVertex_colorB(a, b, t) ==
    Vertex(Vec4(Fadd(a.pos.x, Fmul(Fsub(b.pos.x, a.pos.x), t)),
                Fadd(a.pos.y, Fmul(Fsub(b.pos.y, a.pos.y), t)),
                Fadd(a.pos.z, Fmul(Fsub(b.pos.z, a.pos.z), t)),
                Fadd(a.pos.w, Fmul(Fsub(b.pos.w, a.pos.w), t))),
           b.color,
           Fadd(a.u, Fmul(Fsub(b.u, a.u), t)),
           Fadd(a.v, Fmul(Fsub(b.v, a.v), t)))

LerpVertex(a, b, t) ==
    Vertex(Vec4(Fadd(a.pos.x, Fmul(Fsub(b.pos.x, a.pos.x), t)),
                Fadd(a.pos.y, Fmul(Fsub(b.pos.y, a.pos.y), t)),
                Fadd(a.pos.z, Fmul(Fsub(b.pos.z, a.pos.z), t)),
                Fadd(a.pos.w, Fmul(Fsub(b.pos.w, a.pos.w), t))),
           a.color,
           Fadd(a.u, Fmul(Fsub(b.u, a.u), t)),
           Fadd(a.v, Fmul(Fsub(b.v, a.v), t)))

\* the value returned and the entries of outVerts written (3 per triangle);
\* the entries not written keep what the caller's array held and are not read
ClipResult(n, outVerts) == [kind |-> "tri", n |-> n, outVerts |-> outVerts]

\* the numIn == 1 branch
ClipOneIn(vIn, vOut1, vOut2, nearZ) ==
    LET t1 == Fdiv(Fsub(nearZ, vIn.pos.z), Fsub(vOut1.pos.z, vIn.pos.z))
        t2 == Fdiv(Fsub(nearZ, vIn.pos.z), Fsub(vOut2.pos.z, vIn.pos.z))
        clip1 == LerpVertex(vIn, vOut1, t1)
        clip2 == LerpVertex(vIn, vOut2, t2)
    IN  ClipResult(1, <<vIn, clip1, clip2>>)

\* a mutant of ClipTwoIn: the second triangle is fanned from the wrong corner
ClipTwoIn_overlap(vOut, vIn1, vIn2, nearZ) ==
    LET t1 == Fdiv(Fsub(nearZ, vIn1.pos.z), Fsub(vOut.pos.z, vIn1.pos.z))
        t2 == Fdiv(Fsub(nearZ, vIn2.pos.z), Fsub(vOut.pos.z, vIn2.pos.z))
        clip1 == LerpVertex(vIn1, vOut, t1)
        clip2 == LerpVertex(vIn2, vOut, t2)
    IN  ClipResult(2, <<vIn1, clip1, vIn2, vIn1, clip1, clip2>>)

\* a mutant of ClipTwoIn: only the first triangle of the quad is emitted
ClipTwoIn_single(vOut, vIn1, vIn2, nearZ) ==
    LET t1 == Fdiv(Fsub(nearZ, vIn1.pos.z), Fsub(vOut.pos.z, vIn1.pos.z))
        clip1 == LerpVertex(vIn1, vOut, t1)
    IN  ClipResult(1, <<vIn1, clip1, vIn2>>)

\* the numIn == 2 branch
ClipTwoIn(vOut, vIn1, vIn2, nearZ) ==
    LET t1 == Fdiv(Fsub(nearZ, vIn1.pos.z), Fsub(vOut.pos.z, vIn1.pos.z))
        t2 == Fdiv(Fsub(nearZ, vIn2.pos.z), Fsub(vOut.pos.z, vIn2.pos.z))
        clip1 == LerpVertex(vIn1, vOut, t1)
        clip2 == LerpVertex(vIn2, vOut, t2)
    IN  ClipResult(2, <<vIn1, clip1, vIn2, vIn2, clip1, clip2>>)

\* a mutant of ClipTriangleToNear: a vertex on the plane counts as behind it
ClipTriangleToNear_gt(v0, v1, v2, nearZ) ==
    LET in0 == FLt(nearZ, v0.pos.z)
        in1 == FLt(nearZ, v1.pos.z)
        in2 == FLt(nearZ, v2.pos.z)
        numIn == (IF in0 THEN 1 ELSE 0) + (IF in1 THEN 1 ELSE 0) + (IF in2 THEN 1 ELSE 0)
    IN  IF numIn = 0 THEN ClipResult(0, <<>>)
        ELSE IF numIn = 3 THEN ClipResult(1, <<v0, v1, v2>>)
        ELSE IF numIn = 1
             THEN IF in0 THEN ClipOneIn(v0, v1, v2, nearZ)
                  ELSE IF in1 THEN ClipOneIn(v1, v2, v0, nearZ)
                  ELSE ClipOneIn(v2, v0, v1, nearZ)
        ELSE IF ~in0 THEN ClipTwoIn(v0, v1, v2, nearZ)
             ELSE IF ~in1 THEN ClipTwoIn(v1, v2, v0, nearZ)
             ELSE ClipTwoIn(v2, v0, v1, nearZ)

ClipTriangleToNear(v0, v1, v2, nearZ) ==
    LET in0 == FGe(v0.pos.z, nearZ)
        in1 == FGe(v1.pos.z, nearZ)
        in2 == FGe(v2.pos.z, nearZ)
        numIn == (IF in0 THEN 1 ELSE 0) + (IF in1 THEN 1 ELSE 0) + (IF in2 THEN 1 ELSE 0)
    IN  IF numIn = 0 THEN ClipResult(0, <<>>)
        ELSE IF numIn = 3 THEN ClipResult(1, <<v0, v1, v2>>)
        ELSE IF numIn = 1
             THEN IF in0 THEN ClipOneIn(v0, v1, v2, nearZ)
                  ELSE IF in1 THEN ClipOneIn(v1, v2, v0, nearZ)
                  ELSE ClipOneIn(v2, v0, v1, nearZ)
        ELSE IF ~in0 THEN ClipTwoIn(v0, v1, v2, nearZ)
             ELSE IF ~in1 THEN ClipTwoIn(v1, v2, v0, nearZ)
             ELSE ClipTwoIn(v2, v0, v1, nearZ)

\* the value returned and the endpoints a and b after the call
LineResult(ok, a, b) == [kind |-> "line", ok |-> ok, a |-> a, b |-> b]

\* a mutant of ClipLineToNear: the endpoint in front is the one replaced
ClipLineToNear_swapped(a, b, nearZ) ==
    LET aIn == FGe(a.z, nearZ)
        bIn == FGe(b.z, nearZ)
        t == Fdiv(Fsub(nearZ, a.z), Fsub(b.z, a.z))
        hit == Vec4(Fadd(a.x, Fmul(Fsub(b.x, a.x), t)),
                    Fadd(a.y, Fmul(Fsub(b.y, a.y), t)),
                    nearZ,
                    FromInt(1))
    IN  IF ~aIn /\ ~bIn THEN LineResult(FALSE, a, b)
        ELSE IF aIn /\ bIn THEN LineResult(TRUE, a, b)
        ELSE IF aIn THEN LineResult(TRUE, hit, b)
        ELSE LineResult(TRUE, a, hit)

ClipLineToNear(a, b, nearZ) ==
    LET aIn == FGe(a.z, nearZ)
        bIn == FGe(b.z, nearZ)
        t == Fdiv(Fsub(nearZ, a.z), Fsub(b.z, a.z))
        hit == Vec4(Fadd(a.x, Fmul(Fsub(b.x, a.x), t)),
                    Fadd(a.y, Fmul(Fsub(b.y, a.y), t)),
                    nearZ,
                    FromInt(1))
    IN  IF ~aIn /\ ~bIn THEN LineResult(FALSE, a, b)
        ELSE IF aIn /\ bIn THEN LineResult(TRUE, a, b)
        ELSE IF ~aIn THEN LineResult(TRUE, hit, b)
        ELSE LineResult(TRUE, a, hit)

\* the view-space vertices the clipper is tried on
ClipVerts ==
    { Vertex(Vec4(FromInt(0), FromInt(0), FromInt(0 - 1), FromInt(1)), Red, FromInt(0), FromInt(0)),
      Vertex(Vec4(FromInt(1), FromInt(0), FromInt(1), FromInt(1)), Cyan, FromInt(1), FromInt(0)),
      Vertex(Vec4(FromInt(0), FromInt(1), FromInt(1), FromInt(1)), White, FromInt(0), FromInt(1)),
      Vertex(Vec4(FromInt(0 - 1), FromInt(1), FromInt(3), FromInt(2)), Green, FromInt(1), FromInt(1)),
      Vertex(Vec4(FromInt(1), FromInt(0 - 1), FromInt(0), FromInt(1)), Red, FromRatio(1, 2), FromInt(1)),
      Vertex(Vec4(FromInt(2), FromInt(2), FromInt(0 - 3), FromInt(1)), Cyan, FromInt(0), FromRatio(1, 4)) }

\* the near planes: z = 0 and the engine's kNear
NearZs == { FromInt(0), kNear }

TriangleInput(v0, v1, v2, nearZ) ==
    [kind |-> "tri", v0 |-> v0, v1 |-> v1, v2 |-> v2, nearZ |-> nearZ]

LineInput(a, b, nearZ) == [kind |-> "line", a |-> a, b |-> b, nearZ |-> nearZ]

ClipStart ==
    /\ clipIn \in { TriangleInput(v0, v1, v2, nearZ) :
                        v0 \in ClipVerts, v1 \in ClipVerts, v2 \in ClipVerts, nearZ \in NearZs }
                  \cup { LineInput(a.pos, b.pos, nearZ) :
                        a \in ClipVerts, b \in ClipVerts, nearZ \in NearZs }
    /\ clipOut = [kind |-> "none"]

\* GPU_DrawTriangle's call of ClipTriangleToNear
ClipTriangle ==
    /\ clipIn.kind = "tri"
    /\ clipOut.kind = "none"
    /\ clipOut' = ClipTriangleToNear(clipIn.v0, clipIn.v1, clipIn.v2, clipIn.nearZ)
    /\ UNCHANGED <<clipIn, rasterVars, drawVars, hostVars>>

\* GPU_drawLine's call of ClipLineToNear
ClipLine ==
    /\ clipIn.kind = "line"
    /\ clipOut.kind = "none"
    /\ clipOut' = ClipLineToNear(clipIn.a, clipIn.b, clipIn.nearZ)
    /\ UNCHANGED <<clipIn, rasterVars, drawVars, hostVars>>

NextClip == ClipTriangle \/ ClipLine

\* the frame buffer plays no part in a clipping call
RasterIdle ==
    /\ STAR_BUFFER = [i \in Pixels |-> <<0, 0>>]
    /\ starsGenerated = FALSE
    /\ SCREEN_ARRAY = [i \in Pixels |-> <<0, 0>>]
    /\ DEPTH_ARRAY = [i \in Pixels |-> 0]
    /\ cleared = FALSE
    /\ writes = <<>>

----------------------------------------------------------------------------
(* Shaders and lighting: Shaders.h, RasterHelper.h *)

vec3Normalize(v) ==
    The({ The({ IF FLt(FromRatio(1, 10000), len)
                THEN Vec3(Fdiv(w.x, len), Fdiv(w.y, len), Fdiv(w.z, len))
                ELSE w :
                len \in { Fsqrt(Fadd(Fadd(Fmul(w.x, w.x), Fmul(w.y, w.y)),
                                     Fmul(w.z, w.z))) } }) :
          w \in {v} })

vec3Cross(a, b) ==
    The({ Vec3(Fsub(Fmul(p.y, q.z), Fmul(p.z, q.y)),
               Fsub(Fmul(p.z, q.x), Fmul(p.x, q.z)),
               Fsub(Fmul(p.x, q.y), Fmul(p.y, q.x))) : p \in {a}, q \in {b} })

vec3Dot(a, b) ==
    The({ Fadd(Fadd(Fmul(p.x, q.x), Fmul(p.y, q.y)), Fmul(p.z, q.z)) :
          p \in {a}, q \in {b} })

calculateFaceNormal(v0, v1, v2) ==
    The({ vec3Normalize(vec3Cross(
              Vec3(Fsub(p1.x, p0.x), Fsub(p1.y, p0.y), Fsub(p1.z, p0.z)),
              Vec3(Fsub(p2.x, p0.x), Fsub(p2.y, p0.y), Fsub(p2.z, p0.z)))) :
          p0 \in {v0}, p1 \in {v1}, p2 \in {v2} })

\* a mutant of calculateLighting: a face turned away from the light is lit
\* as one turned to it
calculateLighting_twoSided(faceNormal) ==
    The({ The({ IF FLt(FromInt(1), lighting) THEN FromInt(1) ELSE lighting :
                lighting \in { Fadd(SV_AmbientLight,
                                    Fmul(Fsub(FromInt(1), SV_AmbientLight),
                                         IF FLt(dot, 0) THEN 0 - dot ELSE dot)) } }) :
          dot \in { vec3Dot(faceNormal, vec3Normalize(SV_LightDirection)) } })

calculateLighting(faceNormal) ==
    The({ The({ IF FLt(FromInt(1), lighting) THEN FromInt(1) ELSE lighting :
                lighting \in { Fadd(SV_AmbientLight,
                                    Fmul(Fsub(FromInt(1), SV_AmbientLight),
                                         IF FLt(dot, 0) THEN 0 ELSE dot)) } }) :
          dot \in { vec3Dot(faceNormal, vec3Normalize(SV_LightDirection)) } })

\* the vertex shader PS_WVP; the divide is skipped when w is 0
PS_WVP(v) ==
    The({ [v EXCEPT !.pos = IF p.w # 0
                            THEN Vec4(Fdiv(p.x, p.w), Fdiv(p.y, p.w), Fdiv(p.z, p.w), p.w)
                            ELSE p] :
          p \in { matrixMultiplicationVec(SV_ProjectionMatrix,
                      matrixMultiplicationVec(SV_ViewMatrix,
                          matrixMultiplicationVec(SV_WorldMatrix, v.pos))) } })

\* one channel of applyLighting: (unsigned int)(c * lighting * sun), clamped
LitChannel(c, lighting, sun) ==
    The({ IF scaled > 255 THEN 255 ELSE scaled :
          scaled \in { Trunc(Fmul(Fmul(FromInt(c), lighting), sun)) } })

\* a mutant of applyLighting: the sun color is left out
applyLighting_untinted(color, lighting) ==
    The({ Pack(AlphaOf(c), LitChannel(RedOf(c), lighting, FromInt(1)),
               LitChannel(GreenOf(c), lighting, FromInt(1)),
               LitChannel(BlueOf(c), lighting, FromInt(1))) : c \in {color} })

applyLighting(color, lighting) ==
    The({ Pack(AlphaOf(c),
               LitChannel(RedOf(c), lighting, SV_SunColor.x),
               LitChannel(GreenOf(c), lighting, SV_SunColor.y),
               LitChannel(BlueOf(c), lighting, SV_SunColor.z)) : c \in {color} })

\* a texture: its pixels (row after row), its width and its height; the null
\* pointer is the texture of no pixels
NullTexture == [pixels |-> <<>>, width |-> 0, height |-> 0]

\* a mutant of ClampUV: the coordinate wraps around instead
ClampUV_repeat(c) ==
    The({ IF FLt(x, 0) THEN Fadd(x, FromInt(1))
          ELSE IF FLt(FromInt(1), x) THEN Fsub(x, FromInt(1)) ELSE x : x \in {c} })

\* sampleTexture's clamp of a coordinate to [0, 1]
ClampUV(c) ==
    The({ IF FLt(x, 0) THEN 0 ELSE IF FLt(FromInt(1), x) THEN FromInt(1) ELSE x :
          x \in {c} })

sampleTexture(texture, u, v) ==
    The({ texture.pixels[y * texture.width + x + 1] :
          x \in { Trunc(Fmul(ClampUV(u), FromInt(texture.width - 1))) },
          y \in { Trunc(Fmul(ClampUV(v), FromInt(texture.height - 1))) } })

\* Texture::sample of the game's Texture class: black when nothing is loaded
Texture_sample(texture, u, v) ==
    IF ~texture.loaded_ THEN Pack(255, 0, 0, 0)
    ELSE The({ texture.pixels_[y * texture.width_ + x + 1] :
               x \in { Trunc(Fmul(ClampUV(u), FromInt(texture.width_ - 1))) },
               y \in { Trunc(Fmul(ClampUV(v), FromInt(texture.height_ - 1))) } })

----------------------------------------------------------------------------
(* The scalar triangle path: RasterHelper.h *)

lineEquation(start, end, x, y) ==
    Fadd(Fadd(Fmul(Fsub(start.pos.y, end.pos.y), x),
              Fmul(Fsub(end.pos.x, start.pos.x), y)),
         Fsub(Fmul(start.pos.x, end.pos.y), Fmul(start.pos.y, end.pos.x)))

\* the weights of the point (currX, currY); a triangle of no area divides by
\* zero here and gets weights that are not finite
baryRatio(v0, v1, v2, currX, currY) ==
    [a |-> Fdiv(lineEquation(v2, v1, currX, currY),
                lineEquation(v2, v1, v0.pos.x, v0.pos.y)),
     b |-> Fdiv(lineEquation(v0, v2, currX, currY),
                lineEquation(v0, v2, v1.pos.x, v1.pos.y)),
     y |-> Fdiv(lineEquation(v1, v0, currX, currY),
                lineEquation(v1, v0, v2.pos.x, v2.pos.y))]

\* fillTriangle's test of the weights
Inside(tri) ==
    /\ FGe(tri.b, 0) /\ FLe(tri.b, FromInt(1))
    /\ FGe(tri.y, 0) /\ FLe(tri.y, FromInt(1))
    /\ FGe(tri.a, 0) /\ FLe(tri.a, FromInt(1))

\* an attribute of the three vertices weighted by tri
Interpolate(a0, a1, a2, tri) ==
    Fadd(Fadd(Fmul(a0, tri.a), Fmul(a1, tri.b)), Fmul(a2, tri.y))

toScreen(inp) ==
    The({ Vertex(Vec4(FromInt(Trunc(Fmul(Fadd(i.pos.x, FromInt(1)),
                                         FromInt(RASTER_WIDTH \div 2)))),
                      FromInt(Trunc(Fmul(Fsub(FromInt(1), i.pos.y),
                                         FromInt(RASTER_HEIGHT \div 2)))),
                      i.pos.z, i.pos.w),
                 i.color, i.u, i.v) : i \in {inp} })

Fmin(a, b) == IF a < b THEN a ELSE b

Fmax(a, b) == IF a > b THEN a ELSE b

\* the body of fillTriangle's loops for the pixel (x, y); lighting is the
\* value of g_currentLightingFactor, which DrawTriangle has just set
fillPixel(fb, v0, v1, v2, texture, lighting, x, y) ==
    The({ IF Inside(tri)
          THEN The({ pixelDrawer(fb, x, y, z,
                                 applyLighting(IF texture.width > 0 /\ texture.height > 0
                                               THEN sampleTexture(texture, u, v)
                                               ELSE v0.color,
                                               lighting)) :
                     u \in { Interpolate(v0.u, v1.u, v2.u, tri) },
                     v \in { Interpolate(v0.v, v1.v, v2.v, tri) },
                     z \in { Interpolate(v0.pos.z, v1.pos.z, v2.pos.z, tri) } })
          ELSE fb :
          tri \in { baryRatio(v0, v1, v2, FromInt(x), FromInt(y)) } })

\* the bounding box fillTriangle's loops run over
BoundingBox(v0, v1, v2) ==
    [startX |-> Trunc(Fmin(Fmin(v0.pos.x, v1.pos.x), v2.pos.x)),
     startY |-> Trunc(Fmin(Fmin(v0.pos.y, v1.pos.y), v2.pos.y)),
     endX |-> Trunc(Fmax(Fmax(v0.pos.x, v1.pos.x), v2.pos.x)),
     endY |-> Trunc(Fmax(Fmax(v0.pos.y, v1.pos.y), v2.pos.y))]

\* the rest of fillTriangle's loops, from the k-th pixel of the box on
RECURSIVE fillFrom(_, _, _, _, _, _, _, _)
fillFrom(fb, v0, v1, v2, texture, lighting, box, k) ==
    IF k >= (box.endX - box.startX + 1) * (box.endY - box.startY + 1) THEN fb
    ELSE The({ fillFrom(next, v0, v1, v2, texture, lighting, box, k + 1) :
               next \in { fillPixel(fb, v0, v1, v2, texture, lighting,
                                    box.startX + (k % (box.endX - box.startX + 1)),
                                    box.startY + (k \div (box.endX - box.startX + 1))) } })

fillTriangle(fb, v0, v1, v2, texture, lighting) ==
    The({ fillFrom(fb, v0, v1, v2, texture, lighting, box, 0) :
          box \in { BoundingBox(v0, v1, v2) } })

\* the screen-space signed area DrawTriangle culls on
signedArea(screen_v0, screen_v1, screen_v2) ==
    Fsub(Fmul(Fsub(screen_v1.pos.x, screen_v0.pos.x), Fsub(screen_v2.pos.y, screen_v0.pos.y)),
         Fmul(Fsub(screen_v1.pos.y, screen_v0.pos.y), Fsub(screen_v2.pos.x, screen_v0.pos.x)))

\* the lighting factor DrawTriangle computes from the world-space face normal
FaceLighting(v0, v1, v2) ==
    calculateLighting(calculateFaceNormal(matrixMultiplicationVec(SV_WorldMatrix, v0.pos),
                                          matrixMultiplicationVec(SV_WorldMatrix, v1.pos),
                                          matrixMultiplicationVec(SV_WorldMatrix, v2.pos)))

\* DrawTriangle's way from a vertex to the screen
ShadeToScreen(v) == toScreen(IF VertexShader = "PS_WVP" THEN PS_WVP(v) ELSE v)

\* what a DrawTriangle call does: the frame buffer it leaves, the lighting
\* factor it stores in g_currentLightingFactor, and whether it got as far as
\* fillTriangle
DrawResult(fb, lighting, filled) == [fb |-> fb, lighting |-> lighting, filled |-> filled]

\* a mutant of DrawTriangle: a triangle of zero area is not culled
DrawTriangle_gt(fb, v0, v1, v2, texture) ==
    The({ IF FLt(0, signedArea(screen_v0, screen_v1, screen_v2))
          THEN DrawResult(fb, lighting, FALSE)
          ELSE DrawResult(fillTriangle(fb, screen_v0, screen_v1, screen_v2, texture, lighting),
                          lighting, TRUE) :
          lighting \in { FaceLighting(v0, v1, v2) },
          screen_v0 \in { ShadeToScreen(v0) },
          screen_v1 \in { ShadeToScreen(v1) },
          screen_v2 \in { ShadeToScreen(v2) } })

\* a mutant of DrawTriangle: the cull test is turned around
DrawTriangle_flipped(fb, v0, v1, v2, texture) ==
    The({ IF FLe(signedArea(screen_v0, screen_v1, screen_v2), 0)
          THEN DrawResult(fb, lighting, FALSE)
          ELSE DrawResult(fillTriangle(fb, screen_v0, screen_v1, screen_v2, texture, lighting),
                          lighting, TRUE) :
          lighting \in { FaceLighting(v0, v1, v2) },
          screen_v0 \in { ShadeToScreen(v0) },
          screen_v1 \in { ShadeToScreen(v1) },
          screen_v2 \in { ShadeToScreen(v2) } })

DrawTriangle(fb, v0, v1, v2, texture) ==
    The({ IF FGe(signedArea(screen_v0, screen_v1, screen_v2), 0)
          THEN DrawResult(fb, lighting, FALSE)
          ELSE DrawResult(fillTriangle(fb, screen_v0, screen_v1, screen_v2, texture, lighting),
                          lighting, TRUE) :
          lighting \in { FaceLighting(v0, v1, v2) },
          screen_v0 \in { ShadeToScreen(v0) },
          screen_v1 \in { ShadeToScreen(v1) },
          screen_v2 \in { ShadeToScreen(v2) } })

----------------------------------------------------------------------------
(* The compute path, host side: GLCompute.h *)

\* the depth dispatch resets the depth buffer to: 1000000.0f
GpuClearDepth == FromInt(1000000)

\* the color dispatch resets the pixel buffer to: 0
GpuClearColor == <<0, 0>>

GPUVertex(x, y, z, w, color, u, v, pad) ==
    [x |-> x, y |-> y, z |-> z, w |-> w, color |-> color, u |-> u, v |-> v, pad |-> pad]

TextureBatch(textureData, width, height, triangles) ==
    [textureData |-> textureData, width |-> width, height |-> height,
     triangles |-> triangles]

\* the textures of the program, by the name of the array that holds them
Textures ==
    [celestial_pixels |-> [pixels |-> <<Red, Cyan, White, StarColor>>,
                           width |-> 2, height |-> 2],
     texture |-> [pixels |-> <<White, Green, Red, Cyan>>,
                  width |-> 2, height |-> 2]]

\* a GLCompute as its constructor leaves it; activeTextureBatch is the
\* position in texturedBatches of the batch it points to, 0 for nullptr, and
\* activeDangling says that the batch it was pointed at has since been
\* destroyed or moved; the two buffers have no storage before init
GLComputeNew ==
    [initialized |-> FALSE, useTexture |-> FALSE, texW |-> 0, texH |-> 0,
     textureUploadedThisFrame |-> FALSE,
     texturedTrianglesThisFrame |-> 0, solidTrianglesThisFrame |-> 0,
     solidTriangleData |-> <<>>, texturedBatches |-> <<>>,
     activeTextureBatch |-> 0, activeDangling |-> FALSE, lineData |-> <<>>,
     pixelBuffer |-> <<>>, depthBuffer |-> <<>>]

\* GLCompute::init when every step of it succeeds; a failing init returns
\* before it sets initialized
init(g) ==
    [g EXCEPT !.initialized = TRUE,
              !.pixelBuffer = [i \in Pixels |-> GpuClearColor],
              !.depthBuffer = [i \in Pixels |-> GpuClearDepth]]

shutdown(g) == [g EXCEPT !.initialized = FALSE, !.pixelBuffer = <<>>, !.depthBuffer = <<>>]

\* texturedBatches.clear(): the batches are destroyed, and a pointer to one
\* of them is left dangling
ClearBatches(g) ==
    [g EXCEPT !.texturedBatches = <<>>,
              !.activeDangling = @ \/ g.activeTextureBatch # 0]

\* texturedBatches.push_back(batch): the vector may move its elements to new
\* storage when it grows, and a pointer to one of them is then left dangling
PushBackBatch(g, batch) ==
    [g EXCEPT !.texturedBatches = Append(@, batch),
              !.activeDangling = @ \/ g.activeTextureBatch # 0]

\* activeTextureBatch = nullptr, or the address of the k-th batch
SetActiveBatch(g, k) == [g EXCEPT !.activeTextureBatch = k, !.activeDangling = FALSE]

\* a mutant of beginFrame: the solid batch and the lines are kept
beginFrame_keep(g) ==
    [SetActiveBatch(ClearBatches(g), 0) EXCEPT
              !.textureUploadedThisFrame = FALSE,
              !.texturedTrianglesThisFrame = 0, !.solidTrianglesThisFrame = 0]

\* a mutant of beginFrame: activeTextureBatch is not reset
beginFrame_dangling(g) ==
    [ClearBatches(g) EXCEPT
              !.solidTriangleData = <<>>, !.lineData = <<>>,
              !.textureUploadedThisFrame = FALSE,
              !.texturedTrianglesThisFrame = 0, !.solidTrianglesThisFrame = 0]

beginFrame(g) ==
    [SetActiveBatch(ClearBatches(g), 0) EXCEPT
              !.solidTriangleData = <<>>, !.lineData = <<>>,
              !.textureUploadedThisFrame = FALSE,
              !.texturedTrianglesThisFrame = 0, !.solidTrianglesThisFrame = 0]

\* a mutant of uploadTexture: a new batch for every upload
uploadTexture_fresh(g, textureData, width, height) ==
    IF ~g.initialized THEN g
    ELSE IF textureData = "nullptr" \/ width <= 0 \/ height <= 0 THEN g
    ELSE SetActiveBatch(PushBackBatch([g EXCEPT !.texW = width, !.texH = height,
                                                !.textureUploadedThisFrame = TRUE,
                                                !.useTexture = TRUE],
                                      TextureBatch(textureData, width, height, <<>>)),
                        Len(g.texturedBatches) + 1)

uploadTexture(g, textureData, width, height) ==
    IF ~g.initialized THEN g
    ELSE IF textureData = "nullptr" \/ width <= 0 \/ height <= 0 THEN g
    ELSE LET bound == [g EXCEPT !.texW = width, !.texH = height,
                                !.textureUploadedThisFrame = TRUE, !.useTexture = TRUE]
             same == { k \in 1 .. Len(g.texturedBatches) :
                          /\ g.texturedBatches[k].textureData = textureData
                          /\ g.texturedBatches[k].width = width
                          /\ g.texturedBatches[k].height = height }
         IN  IF same # {}
             THEN SetActiveBatch(bound, CHOOSE k \in same : \A other \in same : k <= other)
             ELSE SetActiveBatch(PushBackBatch(bound, TextureBatch(textureData, width,
                                                                   height, <<>>)),
                                 Len(g.texturedBatches) + 1)

setUseTexture(g, use) == [g EXCEPT !.useTexture = use]

addTriangle(g, x0, y0, z0, c0, x1, y1, z1, c1, x2, y2, z2, c2) ==
    [g EXCEPT !.solidTriangleData =
                  @ \o << GPUVertex(x0, y0, z0, FromInt(1), c0, 0, 0, 0),
                          GPUVertex(x1, y1, z1, FromInt(1), c1, 0, 0, 0),
                          GPUVertex(x2, y2, z2, FromInt(1), c2, 0, 0, 0) >>,
              !.solidTrianglesThisFrame = @ + 1]

\* a mutant of addTexturedTriangle: with no batch to add to, the triangle is
\* dropped
addTexturedTriangle_drop(g, x0, y0, z0, c0, u0, v0, x1, y1, z1, c1, u1, v1, x2, y2, z2, c2, u2, v2) ==
    IF g.activeTextureBatch = 0
    THEN g
    ELSE [g EXCEPT !.texturedBatches[g.activeTextureBatch].triangles =
                       @ \o << GPUVertex(x0, y0, z0, FromInt(1), c0, u0, v0, FromInt(1)),
                               GPUVertex(x1, y1, z1, FromInt(1), c1, u1, v1, FromInt(1)),
                               GPUVertex(x2, y2, z2, FromInt(1), c2, u2, v2, FromInt(1)) >>,
                   !.texturedTrianglesThisFrame = @ + 1]

addTexturedTriangle(g, x0, y0, z0, c0, u0, v0, x1, y1, z1, c1, u1, v1, x2, y2, z2, c2, u2, v2) ==
    IF g.activeTextureBatch = 0
    THEN addTriangle(g, x0, y0, z0, c0, x1, y1, z1, c1, x2, y2, z2, c2)
    ELSE [g EXCEPT !.texturedBatches[g.activeTextureBatch].triangles =
                       @ \o << GPUVertex(x0, y0, z0, FromInt(1), c0, u0, v0, FromInt(1)),
                               GPUVertex(x1, y1, z1, FromInt(1), c1, u1, v1, FromInt(1)),
                               GPUVertex(x2, y2, z2, FromInt(1), c2, u2, v2, FromInt(1)) >>,
                   !.texturedTrianglesThisFrame = @ + 1]

addLine(g, x0, y0, z0, c0, x1, y1, z1, c1) ==
    [g EXCEPT !.lineData = @ \o << GPUVertex(x0, y0, z0, FromInt(1), c0, 0, 0, 0),
                                   GPUVertex(x1, y1, z1, FromInt(1), c1, 0, 0, 0) >>]

GPU_AddTexturedTriangle(g, v0, v1, v2) ==
    addTexturedTriangle(g, v0.pos.x, v0.pos.y, v0.pos.z, v0.color, v0.u, v0.v,
                           v1.pos.x, v1.pos.y, v1.pos.z, v1.color, v1.u, v1.v,
                           v2.pos.x, v2.pos.y, v2.pos.z, v2.color, v2.u, v2.v)

GPU_AddLine(g, v0, v1, color) ==
    addLine(g, v0.pos.x, v0.pos.y, v0.pos.z, color, v1.pos.x, v1.pos.y, v1.pos.z, color)

GPU_AddTriangle(g, v0, v1, v2) ==
    addTriangle(g, v0.pos.x, v0.pos.y, v0.pos.z, v0.color,
                   v1.pos.x, v1.pos.y, v1.pos.z, v1.color,
                   v2.pos.x, v2.pos.y, v2.pos.z, v2.color)

----------------------------------------------------------------------------
(* The compute kernel rasterizer.comp.  One invocation runs, for every      *)
(* output pixel, over the triangles of the bound buffer: backface cull,     *)
(* bounding test, barycentric test, depth test, write.  Two triangles of    *)
(* one invocation that reach a pixel at the same depth may be resolved      *)
(* either way; acceptEqual says which way an invocation resolves them.      *)
(* The line pass is not modelled: the lines of an invocation leave the      *)
(* buffers as they are.                                                     *)

KernelVertex(gv) == Vertex(Vec4(gv.x, gv.y, gv.z, gv.w), gv.color, gv.u, gv.v)

\* one channel of a texel scaled by the gray value of the lighting factor
ModulateChannel(c, gray) ==
    Trunc(Fmul(FromInt(c), Fdiv(FromInt(RedOf(gray)), FromInt(255))))

Modulate(texel, gray) ==
    The({ Pack(AlphaOf(t), ModulateChannel(RedOf(t), gray),
               ModulateChannel(GreenOf(t), gray), ModulateChannel(BlueOf(t), gray)) :
          t \in {texel} })

\* the pixel (px, py) is within the bounding box of the triangle
InBox(x, y, v0, v1, v2) ==
    /\ FLe(Fmin(Fmin(v0.pos.x, v1.pos.x), v2.pos.x), x)
    /\ FLe(x, Fmax(Fmax(v0.pos.x, v1.pos.x), v2.pos.x))
    /\ FLe(Fmin(Fmin(v0.pos.y, v1.pos.y), v2.pos.y), y)
    /\ FLe(y, Fmax(Fmax(v0.pos.y, v1.pos.y), v2.pos.y))

\* the depth test and the write of a fragment of depth z
KernelWrite(cell, z, color, acceptEqual) ==
    IF FLt(z, cell.depth) \/ (acceptEqual /\ z = cell.depth /\ z # NotFinite)
    THEN [color |-> color, depth |-> z]
    ELSE cell

\* one triangle at the pixel (px, py), whose color and depth are in cell
KernelFragment(px, py, cell, v0, v1, v2, texture, useTexture, acceptEqual) ==
    IF FGe(signedArea(v0, v1, v2), 0) THEN cell
    ELSE IF ~InBox(FromInt(px), FromInt(py), v0, v1, v2) THEN cell
    ELSE The({ IF ~Inside(tri) THEN cell
               ELSE The({ KernelWrite(cell, z,
                                      IF useTexture
                                      THEN Modulate(sampleTexture(texture, u, v), v0.color)
                                      ELSE v0.color,
                                      acceptEqual) :
                          u \in { Interpolate(v0.u, v1.u, v2.u, tri) },
                          v \in { Interpolate(v0.v, v1.v, v2.v, tri) },
                          z \in { Interpolate(v0.pos.z, v1.pos.z, v2.pos.z, tri) } }) :
               tri \in { baryRatio(v0, v1, v2, FromInt(px), FromInt(py)) } })

\* the triangles from the k-th on (counting from 0) at the pixel (px, py)
RECURSIVE KernelPixel(_, _, _, _, _, _, _, _)
KernelPixel(px, py, cell, triangles, k, texture, useTexture, acceptEqual) ==
    IF 3 * k + 3 > Len(triangles) THEN cell
    ELSE The({ KernelPixel(px, py, next, triangles, k + 1, texture, useTexture, acceptEqual) :
               next \in { KernelFragment(px, py, cell,
                                         KernelVertex(triangles[3 * k + 1]),
                                         KernelVertex(triangles[3 * k + 2]),
                                         KernelVertex(triangles[3 * k + 3]),
                                         texture, useTexture, acceptEqual) } })

\* one invocation over the whole screen
Kernel(buffers, triangles, texture, useTexture, acceptEqual) ==
    The({ FrameBuffer([i \in Pixels |-> cells[i].color], [i \in Pixels |-> cells[i].depth]) :
          cells \in { [i \in Pixels |->
                          KernelPixel(i % RASTER_WIDTH, i \div RASTER_WIDTH,
                                      [color |-> buffers.color[i], depth |-> buffers.depth[i]],
                                      triangles, 0, texture, useTexture, acceptEqual)] } })

----------------------------------------------------------------------------
(* The compute path, dispatch and drawing: GLCompute.h, main.cpp *)

\* the texture a batch uploads to the kernel
BatchTexture(batch) ==
    [pixels |-> Textures[batch.textureData].pixels,
     width |-> batch.width, height |-> batch.height]

\* what dispatch asks of OpenGL, in the order it asks
GlDispatchCompute(triangles, lines, texture, passUseTexture) ==
    [op |-> "glDispatchCompute",
     triangles |-> triangles, numTriangles |-> Len(triangles) \div 3,
     lines |-> lines, numLines |-> Len(lines) \div 2,
     texture |-> texture, texWidth |-> texture.width, texHeight |-> texture.height,
     useTexture |-> passUseTexture]

GlMemoryBarrier == [op |-> "glMemoryBarrier"]

GlGetBufferSubData == [op |-> "glGetBufferSubData"]

\* dispatch's lambda dispatchTriangles: one invocation and the barrier after it
dispatchTriangles(g, triangles, texture, passUseTexture, includeLines) ==
    << GlDispatchCompute(triangles, IF includeLines THEN g.lineData ELSE <<>>,
                         texture, passUseTexture),
       GlMemoryBarrier >>

\* dispatch's loop over the textured batches, from the k-th on
RECURSIVE dispatchBatches(_, _)
dispatchBatches(g, k) ==
    IF k > Len(g.texturedBatches) THEN <<>>
    ELSE (IF g.texturedBatches[k].triangles = <<>> THEN <<>>
          ELSE dispatchTriangles(g, g.texturedBatches[k].triangles,
                                 BatchTexture(g.texturedBatches[k]), TRUE, FALSE))
         \o dispatchBatches(g, k + 1)

\* a mutant of dispatchIssued: the solid batch and the lines go first
dispatchIssued_solidFirst(g) ==
    dispatchTriangles(g, g.solidTriangleData, NullTexture, FALSE, TRUE)
    \o dispatchBatches(g, 1)
    \o << GlGetBufferSubData >>

\* a mutant of dispatchIssued: the lines go with every invocation
dispatchIssued_linesEverywhere(g) ==
    The({ [k \in 1 .. Len(cmds) |->
              IF cmds[k].op = "glDispatchCompute"
              THEN [cmds[k] EXCEPT !.lines = g.lineData,
                                   !.numLines = Len(g.lineData) \div 2]
              ELSE cmds[k]] :
          cmds \in { dispatchBatches(g, 1)
                     \o dispatchTriangles(g, g.solidTriangleData, NullTexture, FALSE, TRUE)
                     \o << GlGetBufferSubData >> } })

\* everything an initialized dispatch issues after it has reset the buffers
dispatchIssued(g) ==
    dispatchBatches(g, 1)
    \o dispatchTriangles(g, g.solidTriangleData, NullTexture, FALSE, TRUE)
    \o << GlGetBufferSubData >>

\* OpenGL carrying out the commands from the k-th on: run holds the two
\* buffers on the device and the caller's array
RECURSIVE GlExecute(_, _, _, _)
GlExecute(run, commands, k, acceptEqual) ==
    IF k > Len(commands) THEN run
    ELSE The({ GlExecute(next, commands, k + 1, acceptEqual) :
               next \in { IF commands[k].op = "glDispatchCompute"
                          THEN [run EXCEPT !.buffers =
                                    Kernel(run.buffers, commands[k].triangles,
                                           commands[k].texture, commands[k].useTexture,
                                           acceptEqual)]
                          ELSE IF commands[k].op = "glGetBufferSubData"
                          THEN [run EXCEPT !.outputPixels = run.buffers.color]
                          ELSE run } })

\* the GLCompute after the call, the caller's array outputPixels after it,
\* and what was asked of OpenGL
DispatchResult(g, outputPixels, asked) ==
    [g |-> g, outputPixels |-> outputPixels, issued |-> asked]

\* a mutant of dispatch: initialized is not looked at
dispatch_unchecked(g, outputPixels, acceptEqual) ==
    The({ The({ DispatchResult([g EXCEPT !.pixelBuffer = run.buffers.color,
                                         !.depthBuffer = run.buffers.depth],
                               run.outputPixels, asked) :
                run \in { GlExecute([buffers |->
                                         FrameBuffer([i \in Pixels |-> GpuClearColor],
                                                     [i \in Pixels |-> GpuClearDepth]),
                                     outputPixels |-> outputPixels],
                                    asked, 1, acceptEqual) } }) :
          asked \in { dispatchIssued(g) } })

\* a mutant of dispatch: the buffers are not reset
dispatch_keep(g, outputPixels, acceptEqual) ==
    IF ~g.initialized THEN DispatchResult(g, outputPixels, <<>>)
    ELSE The({ The({ DispatchResult([g EXCEPT !.pixelBuffer = run.buffers.color,
                                              !.depthBuffer = run.buffers.depth],
                                    run.outputPixels, asked) :
                     run \in { GlExecute([buffers |-> FrameBuffer(g.pixelBuffer, g.depthBuffer),
                                          outputPixels |-> outputPixels],
                                         asked, 1, acceptEqual) } }) :
               asked \in { dispatchIssued(g) } })

dispatch(g, outputPixels, acceptEqual) ==
    IF ~g.initialized THEN DispatchResult(g, outputPixels, <<>>)
    ELSE The({ The({ DispatchResult([g EXCEPT !.pixelBuffer = run.buffers.color,
                                              !.depthBuffer = run.buffers.depth],
                                    run.outputPixels, asked) :
                     run \in { GlExecute([buffers |->
                                              FrameBuffer([i \in Pixels |-> GpuClearColor],
                                                          [i \in Pixels |-> GpuClearDepth]),
                                          outputPixels |-> outputPixels],
                                         asked, 1, acceptEqual) } }) :
               asked \in { dispatchIssued(g) } })

\* the lighting factor of the compute path: GPU_DrawTriangle's and
\* GPU_DrawTexturedTriangle's NdotL, and the total applyLightingToColor and
\* GPU_DrawTexturedTriangle make of it
AbsNdotL(faceNormal) ==
    The({ IF FLt(NdotL, 0) THEN 0 - NdotL ELSE NdotL :
          NdotL \in { vec3Dot(faceNormal, vec3Normalize(SV_LightDirection)) } })

LightingTotal(lightIntensity) ==
    The({ IF FLt(FromInt(1), total) THEN FromInt(1) ELSE total :
          total \in { Fadd(FromRatio(15, 100), Fmul(lightIntensity, FromRatio(85, 100))) } })

\* one channel of applyLightingToColor: (unsigned int)(c * total)
ScaledChannel(c, total) == Trunc(Fmul(FromInt(c), total))

applyLightingToColor(baseColor, lightIntensity) ==
    The({ Pack(AlphaOf(baseColor),
               ScaledChannel(RedOf(baseColor), IF FLt(FromInt(1), total) THEN FromInt(1) ELSE total),
               ScaledChannel(GreenOf(baseColor), IF FLt(FromInt(1), total) THEN FromInt(1) ELSE total),
               ScaledChannel(BlueOf(baseColor), IF FLt(FromInt(1), total) THEN FromInt(1) ELSE total)) :
          total \in { Fadd(FromRatio(15, 100), Fmul(lightIntensity, FromRatio(85, 100))) } })

TransformToView(v) ==
    Vertex(matrixMultiplicationVert(SV_ViewMatrix,
               matrixMultiplicationVert(SV_WorldMatrix, v)).pos,
           v.color, v.u, v.v)

\* the least w ProjectToScreen divides by: 0.00001f, or the least positive
\* float where 0.00001 is below the resolution
MinW == Fmax(1, FromRatio(1, 100000))

ProjectToScreen(v) ==
    The({ The({ Vertex(Vec4(Fmul(Fmul(Fadd(Fdiv(clipV.pos.x, w), FromInt(1)),
                                      FromRatio(1, 2)),
                                 FromInt(RASTER_WIDTH)),
                            Fmul(Fmul(Fsub(FromInt(1), Fdiv(clipV.pos.y, w)),
                                      FromRatio(1, 2)),
                                 FromInt(RASTER_HEIGHT)),
                            Fdiv(clipV.pos.z, w),
                            clipV.pos.w),
                       v.color, v.u, v.v) :
                w \in { IF FLe(clipV.pos.w, FromRatio(1, 100000)) THEN MinW
                        ELSE clipV.pos.w } }) :
          clipV \in { matrixMultiplicationVert(SV_ProjectionMatrix, v) } })

\* ProjectViewToScreen, for the end of a clipped line: the vertex it returns
\* has the position and the color set
ProjectViewToScreen(viewPos, color) ==
    The({ The({ [pos |-> Vec4(Fmul(Fmul(Fadd(Fdiv(clipV.pos.x, w), FromInt(1)),
                                        FromRatio(1, 2)),
                                   FromInt(RASTER_WIDTH)),
                              Fmul(Fmul(Fsub(FromInt(1), Fdiv(clipV.pos.y, w)),
                                        FromRatio(1, 2)),
                                   FromInt(RASTER_HEIGHT)),
                              Fdiv(clipV.pos.z, w),
                              clipV.pos.w),
                 color |-> color] :
                w \in { IF FLe(clipV.pos.w, FromRatio(1, 100000)) THEN MinW
                        ELSE clipV.pos.w } }) :
          clipV \in { matrixMultiplicationVert(SV_ProjectionMatrix, [pos |-> viewPos]) } })

\* transformToScreen: world, view, projection, the divide unless w is 0, and
\* the screen mapping
transformToScreen(v) ==
    The({ The({ Vertex(Vec4(Fmul(Fmul(Fadd(ndc.x, FromInt(1)), FromRatio(1, 2)),
                                 FromInt(RASTER_WIDTH)),
                            Fmul(Fmul(Fsub(FromInt(1), ndc.y), FromRatio(1, 2)),
                                 FromInt(RASTER_HEIGHT)),
                            ndc.z, ndc.w),
                       v.color, v.u, v.v) :
                ndc \in { IF p.w # 0
                          THEN Vec4(Fdiv(p.x, p.w), Fdiv(p.y, p.w), Fdiv(p.z, p.w), p.w)
                          ELSE p } }) :
          p \in { matrixMultiplicationVert(SV_ProjectionMatrix,
                      matrixMultiplicationVert(SV_ViewMatrix,
                          matrixMultiplicationVert(SV_WorldMatrix, v))).pos } })

\* GPU_DrawTriangle's loop over the clipped triangles, from the i-th on
RECURSIVE submitClipped(_, _, _, _)
submitClipped(g, numTris, clippedVerts, i) ==
    IF i >= numTris THEN g
    ELSE The({ submitClipped(next, numTris, clippedVerts, i + 1) :
               next \in { The({ GPU_AddTriangle(g, s0, s1, s2) :
                                s0 \in { ProjectToScreen(clippedVerts[i * 3 + 1]) },
                                s1 \in { ProjectToScreen(clippedVerts[i * 3 + 2]) },
                                s2 \in { ProjectToScreen(clippedVerts[i * 3 + 3]) } }) } })

\* the two-sided diffuse term of the compute path: |N . L|
TwoSidedNdotL(v0, v1, v2) ==
    The({ IF FLt(dot, 0) THEN 0 - dot ELSE dot :
          dot \in { vec3Dot(calculateFaceNormal(
                                matrixMultiplicationVert(SV_WorldMatrix, v0).pos,
                                matrixMultiplicationVert(SV_WorldMatrix, v1).pos,
                                matrixMultiplicationVert(SV_WorldMatrix, v2).pos),
                            vec3Normalize(SV_LightDirection)) } })

\* the GLCompute after GPU_DrawTriangle
GPU_DrawTriangle(g, v0, v1, v2, baseColor) ==
    The({ The({ submitClipped(setUseTexture(g, FALSE), clipped.n, clipped.outVerts, 0) :
                clipped \in { The({ ClipTriangleToNear(view0, view1, view2, kNear) :
                                    view0 \in { [TransformToView(v0) EXCEPT !.color = litColor] },
                                    view1 \in { [TransformToView(v1) EXCEPT !.color = litColor] },
                                    view2 \in { [TransformToView(v2) EXCEPT !.color = litColor] } }) } }) :
          litColor \in { applyLightingToColor(baseColor, TwoSidedNdotL(v0, v1, v2)) } })

----------------------------------------------------------------------------
(* The frame loop of main() over one mesh: main.cpp, MaterialMesh::render.  *)
(* To compare the two backends on one scene the program is run, left and    *)
(* launched again; `presented` keeps the last frame each backend showed.    *)

Lime == Pack(255, 0, 255, 0)          \* 0xFF00FF00
CubeBlue == Pack(255, 68, 68, 255)    \* 0xFF4444FF

MeshVertex(x, y, z) == Vertex(Vec4(x, y, z, FromInt(1)), White, 0, 0)

MeshTriangle(v0, v1, v2, color) == [v0 |-> v0, v1 |-> v1, v2 |-> v2, color |-> color]

\* the triangles a mesh is made of: a front-facing one in the upper left
\* corner of the view, the same one wound the other way, one of no area,
\* a nearer front-facing one in the middle, and one with a vertex behind
\* the camera
SceneTriangles ==
    { MeshTriangle(MeshVertex(FromInt(0 - 1), FromInt(1), FromRatio(7, 4)),
                   MeshVertex(FromInt(0 - 1), FromInt(0), FromRatio(7, 4)),
                   MeshVertex(FromInt(0), FromInt(1), FromRatio(7, 4)), Red),
      MeshTriangle(MeshVertex(FromInt(0 - 1), FromInt(1), FromRatio(7, 4)),
                   MeshVertex(FromInt(0), FromInt(1), FromRatio(7, 4)),
                   MeshVertex(FromInt(0 - 1), FromInt(0), FromRatio(7, 4)), Cyan),
      MeshTriangle(MeshVertex(FromInt(0 - 1), FromInt(1), FromRatio(7, 4)),
                   MeshVertex(FromInt(0), FromInt(0), FromRatio(7, 4)),
                   MeshVertex(FromInt(1), FromInt(0 - 1), FromRatio(7, 4)), White),
      MeshTriangle(MeshVertex(FromInt(0), FromInt(0), FromRatio(1, 2)),
                   MeshVertex(FromInt(0), FromInt(0 - 1), FromRatio(1, 2)),
                   MeshVertex(FromInt(1), FromInt(0), FromRatio(1, 2)), Lime),
      MeshTriangle(MeshVertex(FromInt(0 - 1), FromInt(1), FromRatio(7, 4)),
                   MeshVertex(FromInt(0 - 1), FromInt(0), FromInt(0 - 1)),
                   MeshVertex(FromInt(0), FromInt(1), FromRatio(7, 4)), CubeBlue) }

\* a mesh lists up to MaxTriangles of them, each one once
Scenes ==
    UNION { { mesh \in [1 .. n -> SceneTriangles] :
              \A i, j \in 1 .. n : mesh[i] = mesh[j] => i = j } :
            n \in 1 .. MaxTriangles }

\* the world matrix of the mesh
WorldMatrices ==
    { MatrixIdentity, matrixTranslation(Vec4(0, 0, FromRatio(1, 4), FromInt(1))) }

\* the camera at the origin, looking down +z
ViewMatrices == { MatrixIdentity }

\* main's projection, projectionMatrixMath(60.0f, (float)RASTER_HEIGHT /
\* RASTER_WIDTH, 100.0f, 0.1f), with 1 / tan(30 degrees) = 1.732
ProjectionMatrices ==
    { projectionMatrixMath(FromRatio(1732, 1000),
                           Fdiv(FromInt(RASTER_HEIGHT), FromInt(RASTER_WIDTH)),
                           FromInt(100), FromRatio(1, 10)) }

\* Shaders.h: the light, ambient and sun settings a process starts with
DefaultLightDirection == Vec3(FromRatio(6, 10), FromRatio(8, 10), 0 - FromRatio(3, 10))
DefaultAmbientLight == FromRatio(15, 100)
DefaultSunColor == Vec3(FromInt(1), FromRatio(95, 100), FromRatio(8, 10))

\* the light directions the settings panel is left at: the default, which
\* lights the meshes from behind, and one along the view direction
LightDirections == { DefaultLightDirection, Vec3(0, 0, FromInt(1)) }

NoFrame == <<>>

NoDraw == [kind |-> "none"]

\* the pipeline state when no frame loop runs
DrawIdle ==
    /\ VertexShader = "nullptr"
    /\ SV_WorldMatrix = MatrixIdentity
    /\ SV_ViewMatrix = MatrixIdentity
    /\ SV_ProjectionMatrix = MatrixIdentity
    /\ SV_LightDirection = DefaultLightDirection
    /\ SV_AmbientLight = DefaultAmbientLight
    /\ SV_SunColor = DefaultSunColor
    /\ g_currentLightingFactor = FromInt(1)
    /\ useGPU = TRUE
    /\ g_GLCompute = GLComputeNew
    /\ pc = "idle"
    /\ scene = <<>>
    /\ drawn = 0
    /\ lastDraw = NoDraw
    /\ presented = [cpu |-> NoFrame, gpu |-> NoFrame]

\* a process at the start of main(): buffers allocated and not yet written,
\* the mesh, the camera, the projection and the light chosen
FrameStart ==
    /\ STAR_BUFFER = [i \in Pixels |-> <<0, 0>>]
    /\ starsGenerated = FALSE
    /\ SCREEN_ARRAY \in { [i \in Pixels |-> c] : c \in GarbageColors }
    /\ DEPTH_ARRAY \in { [i \in Pixels |-> d] : d \in GarbageDepths }
    /\ cleared = FALSE
    /\ writes = <<>>
    /\ VertexShader = "nullptr"
    /\ SV_WorldMatrix \in WorldMatrices
    /\ SV_ViewMatrix \in ViewMatrices
    /\ SV_ProjectionMatrix \in ProjectionMatrices
    /\ SV_LightDirection \in LightDirections
    /\ SV_AmbientLight = DefaultAmbientLight
    /\ SV_SunColor = DefaultSunColor
    /\ g_currentLightingFactor = FromInt(1)
    /\ useGPU = TRUE
    /\ g_GLCompute = GLComputeNew
    /\ pc = "start"
    /\ scene \in Scenes
    /\ drawn = 0
    /\ lastDraw = NoDraw
    /\ presented = [cpu |-> NoFrame, gpu |-> NoFrame]

\* main() up to its loop: GPU_Init, and the fall back to the scalar path
\* when it fails
Startup(ok) ==
    /\ pc = "start"
    /\ useGPU
    /\ useGPU' = ok
    /\ g_GLCompute' = IF ok
                      THEN uploadTexture(init(g_GLCompute), "celestial_pixels",
                                         Textures.celestial_pixels.width,
                                         Textures.celestial_pixels.height)
                      ELSE g_GLCompute
    /\ pc' = "loop"
    /\ UNCHANGED <<hostVars, rasterVars, clipVars, shaderVars, scene, drawn, lastDraw, presented>>

\* the scalar path of the loop body, up to the mesh
BeginFrameCPU ==
    /\ pc = "loop"
    /\ ~useGPU
    /\ clearColorBuffer
    /\ VertexShader' = "PS_WVP"
    /\ pc' = "render"
    /\ drawn' = 0
    /\ UNCHANGED <<hostVars, clipVars, SV_WorldMatrix, SV_ViewMatrix, SV_ProjectionMatrix,
                   SV_LightDirection, SV_AmbientLight, SV_SunColor,
                   g_currentLightingFactor, gpuVars, scene, lastDraw, presented>>

\* the compute path of the loop body, up to the mesh
BeginFrameGPU ==
    /\ pc = "loop"
    /\ useGPU
    /\ g_GLCompute' = beginFrame(g_GLCompute)
    /\ pc' = "render"
    /\ drawn' = 0
    /\ UNCHANGED <<hostVars, rasterVars, clipVars, shaderVars, useGPU, scene, lastDraw, presented>>

\* the next triangle of the mesh, its vertices given the color of the mesh
NextTriangle ==
    LET t == scene[drawn + 1]
    IN  [v0 |-> [t.v0 EXCEPT !.color = t.color],
         v1 |-> [t.v1 EXCEPT !.color = t.color],
         v2 |-> [t.v2 EXCEPT !.color = t.color],
         color |-> t.color]

\* MaterialMesh::render, one triangle of an untextured mesh, scalar path
RenderTriangleCPU ==
    /\ pc = "render"
    /\ ~useGPU
    /\ drawn < Len(scene)
    /\ \E t \in {NextTriangle} :
          \E r \in { DrawTriangle(FrameBuffer(SCREEN_ARRAY, DEPTH_ARRAY),
                                  t.v0, t.v1, t.v2, NullTexture) } :
             /\ SCREEN_ARRAY' = r.fb.color
             /\ DEPTH_ARRAY' = r.fb.depth
             /\ g_currentLightingFactor' = r.lighting
             /\ lastDraw' = [kind |-> "draw", v0 |-> t.v0, v1 |-> t.v1, v2 |-> t.v2,
                             filled |-> r.filled]
    /\ drawn' = drawn + 1
    /\ UNCHANGED <<STAR_BUFFER, starsGenerated, cleared, writes, clipVars, hostVars,
                   VertexShader, SV_WorldMatrix, SV_ViewMatrix, SV_ProjectionMatrix,
                   SV_LightDirection, SV_AmbientLight, SV_SunColor,
                   gpuVars, pc, scene, presented>>

\* MaterialMesh::render, one triangle of an untextured mesh, compute path
RenderTriangleGPU ==
    /\ pc = "render"
    /\ useGPU
    /\ drawn < Len(scene)
    /\ \E t \in {NextTriangle} :
          g_GLCompute' = GPU_DrawTriangle(g_GLCompute, t.v0, t.v1, t.v2, t.color)
    /\ drawn' = drawn + 1
    /\ UNCHANGED <<hostVars, rasterVars, clipVars, shaderVars, useGPU, pc, scene, lastDraw, presented>>

\* the scalar path after the mesh: RS_Update shows SCREEN_ARRAY
EndFrameCPU ==
    /\ pc = "render"
    /\ ~useGPU
    /\ drawn = Len(scene)
    /\ presented' = [presented EXCEPT !.cpu = SCREEN_ARRAY]
    /\ pc' = "loop"
    /\ UNCHANGED <<hostVars, rasterVars, clipVars, shaderVars, gpuVars, scene, drawn, lastDraw>>

\* the compute path after the mesh: GPU_Dispatch(SCREEN_ARRAY), then
\* RS_Update shows SCREEN_ARRAY
EndFrameGPU(acceptEqual) ==
    /\ pc = "render"
    /\ useGPU
    /\ drawn = Len(scene)
    /\ \E r \in { dispatch(g_GLCompute, SCREEN_ARRAY, acceptEqual) } :
          /\ g_GLCompute' = r.g
          /\ SCREEN_ARRAY' = r.outputPixels
          /\ presented' = [presented EXCEPT !.gpu = r.outputPixels]
    /\ pc' = "loop"
    /\ UNCHANGED <<STAR_BUFFER, starsGenerated, DEPTH_ARRAY, cleared, writes, clipVars, hostVars,
                   shaderVars, useGPU, scene, drawn, lastDraw>>

\* RS_Update reports the window closed, main() cleans up and returns, and
\* the program is launched again on the same scene and settings; its buffers
\* are allocated anew
Relaunch ==
    /\ pc = "loop"
    /\ STAR_BUFFER' = [i \in Pixels |-> <<0, 0>>]
    /\ starsGenerated' = FALSE
    /\ SCREEN_ARRAY' \in { [i \in Pixels |-> c] : c \in GarbageColors }
    /\ DEPTH_ARRAY' \in { [i \in Pixels |-> d] : d \in GarbageDepths }
    /\ cleared' = FALSE
    /\ writes' = <<>>
    /\ VertexShader' = "nullptr"
    /\ g_currentLightingFactor' = FromInt(1)
    /\ useGPU' = TRUE
    /\ g_GLCompute' = GLComputeNew
    /\ pc' = "start"
    /\ drawn' = 0
    /\ lastDraw' = NoDraw
    /\ UNCHANGED <<hostVars, clipVars, SV_WorldMatrix, SV_ViewMatrix, SV_ProjectionMatrix,
                   SV_LightDirection, SV_AmbientLight, SV_SunColor, scene, presented>>

NextFrame ==
    \/ \E ok \in BOOLEAN : Startup(ok)
    \/ BeginFrameCPU
    \/ BeginFrameGPU
    \/ RenderTriangleCPU
    \/ RenderTriangleGPU
    \/ EndFrameCPU
    \/ \E acceptEqual \in BOOLEAN : EndFrameGPU(acceptEqual)
    \/ Relaunch

----------------------------------------------------------------------------
(* Direct calls of DrawTriangle, with no vertex shader installed *)

\* the coordinates a caller passes: toScreen takes -1, 0, 1 to the pixels
\* 0, 1, 2 of a row and 2, 1, 0 of a column, and 2 to a pixel beyond
DrawCoords == { FromInt(0 - 1), FromInt(0), FromInt(1), FromInt(2) }

DrawVerts ==
    { Vertex(Vec4(x, y, FromRatio(1, 2), FromInt(1)), Red, 0, 0) :
      x \in DrawCoords, y \in DrawCoords }

\* the frame buffer after a clear, nothing drawn yet
ClearedBuffers ==
    /\ STAR_BUFFER = [i \in Pixels |-> SpaceColor]
    /\ starsGenerated = TRUE
    /\ SCREEN_ARRAY = [i \in Pixels |-> SpaceColor]
    /\ DEPTH_ARRAY = [i \in Pixels |-> ClearDepth]
    /\ cleared = TRUE
    /\ writes = <<>>

\* a caller draws one untextured triangle
DrawTriangleCall(v0, v1, v2) ==
    /\ pc = "idle"
    /\ lastDraw = NoDraw
    /\ \E r \in { DrawTriangle(FrameBuffer(SCREEN_ARRAY, DEPTH_ARRAY),
                               v0, v1, v2, NullTexture) } :
          /\ SCREEN_ARRAY' = r.fb.color
          /\ DEPTH_ARRAY' = r.fb.depth
          /\ g_currentLightingFactor' = r.lighting
          /\ lastDraw' = [kind |-> "draw", v0 |-> v0, v1 |-> v1, v2 |-> v2,
                          filled |-> r.filled]
    /\ UNCHANGED <<STAR_BUFFER, starsGenerated, cleared, writes, clipVars, hostVars,
                   VertexShader, SV_WorldMatrix, SV_ViewMatrix, SV_ProjectionMatrix,
                   SV_LightDirection, SV_AmbientLight, SV_SunColor,
                   gpuVars, pc, scene, drawn, presented>>

\* the flat colors a caller gives a triangle: v0.color is the one fillTriangle
\* uses
FlatColors == { Red, White }

FlatVertex(v, color) == [v EXCEPT !.color = color]

\* a caller points the sun somewhere else before it draws
SetLightDirection(direction) ==
    /\ pc = "idle"
    /\ lastDraw = NoDraw
    /\ SV_LightDirection # direction
    /\ SV_LightDirection' = direction
    /\ UNCHANGED <<rasterVars, clipVars, hostVars, VertexShader, SV_WorldMatrix,
                   SV_ViewMatrix, SV_ProjectionMatrix, SV_AmbientLight, SV_SunColor,
                   g_currentLightingFactor, gpuVars, frameVars>>

NextDraw ==
    \/ \E direction \in LightDirections : SetLightDirection(direction)
    \/ \E color \in FlatColors, v0 \in DrawVerts, v1 \in DrawVerts, v2 \in DrawVerts :
          DrawTriangleCall(FlatVertex(v0, color), FlatVertex(v1, color),
                           FlatVertex(v2, color))

----------------------------------------------------------------------------
(* Direct calls of the GLCompute: batches of a frame and their dispatch *)

\* what callers pass to uploadTexture: the two textures at their size, one
\* of them also as a smaller image, and a null pointer, which uploadTexture
\* refuses
UploadArgs ==
    { [textureData |-> "celestial_pixels", width |-> 2, height |-> 2],
      [textureData |-> "texture", width |-> 2, height |-> 2],
      [textureData |-> "celestial_pixels", width |-> 1, height |-> 1],
      [textureData |-> "nullptr", width |-> 2, height |-> 2] }

ScreenVertex(x, y, z, color, u, v) ==
    Vertex(Vec4(FromInt(x), FromInt(y), z, FromInt(1)), color, u, v)

\* a textured triangle over the upper left pixels, its color the gray of a
\* lighting factor of 1
TexturedTriangles ==
    { [v0 |-> ScreenVertex(0, 0, FromRatio(1, 2), White, 0, 0),
       v1 |-> ScreenVertex(0, 1, FromRatio(1, 2), White, 0, FromInt(1)),
       v2 |-> ScreenVertex(1, 0, FromRatio(1, 2), White, FromInt(1), 0)] }

\* a solid triangle over the lower right pixels, nearer
SolidTriangles ==
    { [v0 |-> ScreenVertex(1, 1, FromRatio(1, 4), Red, 0, 0),
       v1 |-> ScreenVertex(1, 0, FromRatio(1, 4), Red, 0, 0),
       v2 |-> ScreenVertex(0, 1, FromRatio(1, 4), Red, 0, 0)] }

\* a grid line across the screen
HostLines ==
    { [v0 |-> ScreenVertex(0, 0, FromRatio(1, 2), Cyan, 0, 0),
       v1 |-> ScreenVertex(1, 1, FromRatio(1, 2), Cyan, 0, 0),
       color |-> Cyan] }

\* a process at the start of main(): the GLCompute constructed, GPU_Init not
\* yet called
HostStart ==
    /\ VertexShader = "nullptr"
    /\ SV_WorldMatrix = MatrixIdentity
    /\ SV_ViewMatrix = MatrixIdentity
    /\ SV_ProjectionMatrix = MatrixIdentity
    /\ SV_LightDirection = DefaultLightDirection
    /\ SV_AmbientLight = DefaultAmbientLight
    /\ SV_SunColor = DefaultSunColor
    /\ g_currentLightingFactor = FromInt(1)
    /\ g_GLCompute = GLComputeNew
    /\ useGPU = TRUE
    /\ pc = "start"
    /\ scene = <<>>
    /\ drawn = 0
    /\ lastDraw = NoDraw
    /\ presented = [cpu |-> NoFrame, gpu |-> NoFrame]
    /\ STAR_BUFFER = [i \in Pixels |-> <<0, 0>>]
    /\ starsGenerated = FALSE
    /\ SCREEN_ARRAY \in { [i \in Pixels |-> c] : c \in GarbageColors }
    /\ DEPTH_ARRAY = [i \in Pixels |-> 0]
    /\ cleared = FALSE
    /\ writes = <<>>
    /\ calls = <<>>
    /\ issued = <<>>

\* what a call on the GLCompute leaves alone
HostUnchanged ==
    UNCHANGED <<STAR_BUFFER, starsGenerated, DEPTH_ARRAY, cleared, writes, clipVars,
                shaderVars, useGPU, scene, drawn, lastDraw, presented>>

\* main() up to its loop: GPU_Init, which succeeds or fails, and the fall
\* back to the scalar path when it fails
HostInit(ok) ==
    /\ pc = "start"
    /\ useGPU
    /\ g_GLCompute' = IF ok THEN init(g_GLCompute) ELSE g_GLCompute
    /\ useGPU' = ok
    /\ pc' = "submit"
    /\ UNCHANGED <<rasterVars, clipVars, hostVars, shaderVars, scene, drawn, lastDraw, presented>>

HostBeginFrame ==
    /\ pc \in { "submit", "dispatched" }
    /\ g_GLCompute' = beginFrame(g_GLCompute)
    /\ calls' = <<>>
    /\ issued' = <<>>
    /\ pc' = "submit"
    /\ UNCHANGED SCREEN_ARRAY
    /\ HostUnchanged

HostUploadTexture(args) ==
    /\ pc = "submit"
    /\ Len(calls) < MaxCalls
    /\ g_GLCompute' = uploadTexture(g_GLCompute, args.textureData, args.width, args.height)
    /\ calls' = Append(calls, [op |-> "uploadTexture", textureData |-> args.textureData,
                               width |-> args.width, height |-> args.height])
    /\ UNCHANGED <<SCREEN_ARRAY, issued, pc>>
    /\ HostUnchanged

HostAddTexturedTriangle(t) ==
    /\ pc = "submit"
    /\ Len(calls) < MaxCalls
    /\ g_GLCompute' = GPU_AddTexturedTriangle(g_GLCompute, t.v0, t.v1, t.v2)
    /\ calls' = Append(calls, [op |-> "addTexturedTriangle", v0 |-> t.v0, v1 |-> t.v1, v2 |-> t.v2])
    /\ UNCHANGED <<SCREEN_ARRAY, issued, pc>>
    /\ HostUnchanged

HostAddTriangle(t) ==
    /\ pc = "submit"
    /\ Len(calls) < MaxCalls
    /\ g_GLCompute' = GPU_AddTriangle(g_GLCompute, t.v0, t.v1, t.v2)
    /\ calls' = Append(calls, [op |-> "addTriangle", v0 |-> t.v0, v1 |-> t.v1, v2 |-> t.v2])
    /\ UNCHANGED <<SCREEN_ARRAY, issued, pc>>
    /\ HostUnchanged

HostAddLine(l) ==
    /\ pc = "submit"
    /\ Len(calls) < MaxCalls
    /\ g_GLCompute' = GPU_AddLine(g_GLCompute, l.v0, l.v1, l.color)
    /\ calls' = Append(calls, [op |-> "addLine", v0 |-> l.v0, v1 |-> l.v1, color |-> l.color])
    /\ UNCHANGED <<SCREEN_ARRAY, issued, pc>>
    /\ HostUnchanged

\* GPU_Dispatch(SCREEN_ARRAY) at the end of a frame
HostDispatch(acceptEqual) ==
    /\ pc = "submit"
    /\ \E r \in { dispatch(g_GLCompute, SCREEN_ARRAY, acceptEqual) } :
          /\ g_GLCompute' = r.g
          /\ SCREEN_ARRAY' = r.outputPixels
          /\ issued' = r.issued
    /\ pc' = "dispatched"
    /\ UNCHANGED calls
    /\ HostUnchanged

\* the triangles the scalar loop body draws, given in normalized device
\* coordinates: one over the upper left of the screen, one over its lower right
ScalarVertex(x, y) == Vertex(Vec4(FromInt(x), FromInt(y), FromRatio(1, 2), FromInt(1)), Red, 0, 0)

ScalarTriangles ==
    { [v0 |-> ScalarVertex(0, 1), v1 |-> ScalarVertex(0 - 1, 1), v2 |-> ScalarVertex(0 - 1, 0)],
      [v0 |-> ScalarVertex(0 - 1, 0 - 1), v1 |-> ScalarVertex(0, 0 - 1), v2 |-> ScalarVertex(0, 0)] }

\* the loop body of main on the scalar path, up to its first primitive; it
\* makes no call on the GLCompute
HostClearColorBuffer ==
    /\ ~useGPU
    /\ pc \in { "submit", "scalar" }
    /\ calls = <<>>
    /\ clearColorBuffer
    /\ VertexShader' = "PS_WVP"
    /\ scene' = <<>>
    /\ drawn' = 0
    /\ pc' = "scalar"
    /\ UNCHANGED <<clipVars, hostVars, SV_WorldMatrix, SV_ViewMatrix, SV_ProjectionMatrix,
                   SV_LightDirection, SV_AmbientLight, SV_SunColor,
                   g_currentLightingFactor, gpuVars, lastDraw, presented>>

\* a DrawTriangle call of the scalar loop body
HostDrawTriangle(t) ==
    /\ pc = "scalar"
    /\ drawn < MaxTriangles
    /\ \E r \in { DrawTriangle(FrameBuffer(SCREEN_ARRAY, DEPTH_ARRAY),
                               t.v0, t.v1, t.v2, NullTexture) } :
          /\ SCREEN_ARRAY' = r.fb.color
          /\ DEPTH_ARRAY' = r.fb.depth
          /\ g_currentLightingFactor' = r.lighting
    /\ scene' = Append(scene, t)
    /\ drawn' = drawn + 1
    /\ UNCHANGED <<STAR_BUFFER, starsGenerated, cleared, writes, clipVars, hostVars,
                   VertexShader, SV_WorldMatrix, SV_ViewMatrix, SV_ProjectionMatrix,
                   SV_LightDirection, SV_AmbientLight, SV_SunColor,
                   gpuVars, pc, lastDraw, presented>>

NextBatch ==
    \/ \E ok \in BOOLEAN : HostInit(ok)
    \/ HostBeginFrame
    \/ \E args \in UploadArgs : HostUploadTexture(args)
    \/ \E t \in TexturedTriangles : HostAddTexturedTriangle(t)
    \/ \E t \in SolidTriangles : HostAddTriangle(t)
    \/ \E l \in HostLines : HostAddLine(l)
    \/ \E acceptEqual \in BOOLEAN : HostDispatch(acceptEqual)
    \/ HostClearColorBuffer
    \/ \E t \in ScalarTriangles : HostDrawTriangle(t)

----------------------------------------------------------------------------
(* Direct calls of calculateLighting *)

\* the values the settings panel leaves in SV_AmbientLight
AmbientLights == { 0, DefaultAmbientLight, FromRatio(1, 2), FromInt(1) }

\* the light directions of the settings panel: along an axis either way, and
\* the default
PanelLightDirections ==
    { Vec3(FromInt(x), FromInt(y), FromInt(z)) :
      x \in (0 - 1) .. 1, y \in (0 - 1) .. 1, z \in (0 - 1) .. 1 }
    \cup { DefaultLightDirection }

\* the face normals calculateFaceNormal returns: normalized, or the zero
\* vector of a triangle without area
FaceNormals ==
    { vec3Normalize(Vec3(FromInt(x), FromInt(y), FromInt(z))) :
      x \in (0 - 1) .. 1, y \in (0 - 1) .. 1, z \in (0 - 1) .. 1 }

\* a process whose settings panel has set the light and the ambient level
LightStart ==
    /\ VertexShader = "nullptr"
    /\ SV_WorldMatrix = MatrixIdentity
    /\ SV_ViewMatrix = MatrixIdentity
    /\ SV_ProjectionMatrix = MatrixIdentity
    /\ SV_LightDirection \in PanelLightDirections
    /\ SV_AmbientLight \in AmbientLights
    /\ SV_SunColor = DefaultSunColor
    /\ g_currentLightingFactor = FromInt(1)
    /\ useGPU = TRUE
    /\ g_GLCompute = GLComputeNew
    /\ pc = "idle"
    /\ scene = <<>>
    /\ drawn = 0
    /\ lastDraw = NoDraw
    /\ presented = [cpu |-> NoFrame, gpu |-> NoFrame]

\* g_currentLightingFactor = calculateLighting(faceNormal), as DrawTriangle
\* has it
CalculateLighting(faceNormal) ==
    /\ pc = "idle"
    /\ g_currentLightingFactor' = calculateLighting(faceNormal)
    /\ lastDraw' = [kind |-> "light", faceNormal |-> faceNormal]
    /\ UNCHANGED <<rasterVars, clipVars, hostVars, VertexShader, SV_WorldMatrix,
                   SV_ViewMatrix, SV_ProjectionMatrix, SV_LightDirection, SV_AmbientLight,
                   SV_SunColor, gpuVars, pc, scene, drawn, presented>>

NextLight == \E faceNormal \in FaceNormals : CalculateLighting(faceNormal)

----------------------------------------------------------------------------
(* Direct calls of the pure functions: the ones that take a vertex to the
   screen first *)

\* the positions a caller hands over; w of main's projection is the z of the
\* position, so that a position of z = 0 has the projected w = 0
ProjectCoords == { FromInt(0 - 1), 0, FromInt(1) }

ProjectDepths == { 0, FromRatio(1, 2), FromInt(2) }

ProjectVerts ==
    { Vertex(Vec4(x, y, z, FromInt(1)), c, 0, 0) :
      x \in ProjectCoords, y \in ProjectCoords, z \in ProjectDepths, c \in FlatColors }

\* the state the calls are made in: main has set the projection, or nobody
\* has
CallsStart ==
    /\ VertexShader = "PS_WVP"
    /\ SV_WorldMatrix = MatrixIdentity
    /\ SV_ViewMatrix = MatrixIdentity
    /\ SV_ProjectionMatrix \in ProjectionMatrices \cup { MatrixIdentity }
    /\ SV_LightDirection = DefaultLightDirection
    /\ SV_AmbientLight = DefaultAmbientLight
    /\ SV_SunColor = DefaultSunColor
    /\ g_currentLightingFactor = FromInt(1)
    /\ useGPU = TRUE
    /\ g_GLCompute = GLComputeNew
    /\ pc = "idle"
    /\ scene = <<>>
    /\ drawn = 0
    /\ lastDraw = NoDraw
    /\ presented = [cpu |-> NoFrame, gpu |-> NoFrame]

\* the call is recorded with its argument and with what it returned
Projected(by, v, out) ==
    /\ pc = "idle"
    /\ lastDraw = NoDraw
    /\ lastDraw' = [kind |-> "project", by |-> by, v |-> v, out |-> out]
    /\ UNCHANGED <<rasterVars, clipVars, hostVars, shaderVars, gpuVars,
                   pc, scene, drawn, presented>>

CallPS_WVP(v) == Projected("PS_WVP", v, PS_WVP(v))

CallTransformToScreen(v) == Projected("transformToScreen", v, transformToScreen(v))

CallProjectToScreen(v) == Projected("ProjectToScreen", v, ProjectToScreen(v))

CallProjectViewToScreen(v) ==
    Projected("ProjectViewToScreen", v, ProjectViewToScreen(v.pos, v.color))

NextProject ==
    \E v \in ProjectVerts :
        \/ CallPS_WVP(v)
        \/ CallTransformToScreen(v)
        \/ CallProjectToScreen(v)
        \/ CallProjectViewToScreen(v)

\* the textures sampled: one texel, the 2 x 2 of the program, and a 3 x 2
\* whose texels all differ
SampledTextures ==
    { [pixels |-> <<Red>>, width |-> 1, height |-> 1],
      Textures.celestial_pixels,
      [pixels |-> <<Red, Cyan, White, Green, StarColor, SpaceColor>>,
       width |-> 3, height |-> 2] }

\* -0.3, 0, 0.5, 1 and 1.5
SampleCoords ==
    { 0 - FromRatio(3, 10), 0, FromRatio(1, 2), FromInt(1), FromRatio(3, 2) }

\* a Texture object holding the pixels of texture, loaded or not
GameTexture(texture, loaded) ==
    [pixels_ |-> texture.pixels, width_ |-> texture.width, height_ |-> texture.height,
     loaded_ |-> loaded]

Sampled(by, texture, u, v, out) ==
    /\ pc = "idle"
    /\ lastDraw = NoDraw
    /\ lastDraw' = [kind |-> "sample", by |-> by, texture |-> texture,
                    u |-> u, v |-> v, out |-> out]
    /\ UNCHANGED <<rasterVars, clipVars, hostVars, shaderVars, gpuVars,
                   pc, scene, drawn, presented>>

CallSampleTexture(texture, u, v) ==
    Sampled("sampleTexture", texture, u, v, sampleTexture(texture, u, v))

CallTextureSample(texture, loaded, u, v) ==
    Sampled("Texture::sample", GameTexture(texture, loaded), u, v,
            Texture_sample(GameTexture(texture, loaded), u, v))

NextSample ==
    \E texture \in SampledTextures, u \in SampleCoords, v \in SampleCoords :
        \/ CallSampleTexture(texture, u, v)
        \/ \E loaded \in BOOLEAN : CallTextureSample(texture, loaded, u, v)

\* the values of a channel the calls pack
Channels == { 0, 10, 20, 30, 128, 255 }

\* (a << 24) | (r << 16) | (g << 8) | b of four channels, and what the shifts
\* and masks of applyLighting and applyLightingToColor get back from it
PackChannels(a, r, g, b) ==
    /\ pc = "idle"
    /\ lastDraw = NoDraw
    /\ \E color \in { Pack(a, r, g, b) } :
          lastDraw' = [kind |-> "pack", a |-> a, r |-> r, g |-> g, b |-> b,
                       color |-> color,
                       out |-> <<AlphaOf(color), RedOf(color), GreenOf(color),
                                 BlueOf(color)>>]
    /\ UNCHANGED <<rasterVars, clipVars, hostVars, shaderVars, gpuVars,
                   pc, scene, drawn, presented>>

NextPack == \E a \in Channels, r \in Channels, g \in Channels, b \in Channels : PackChannels(a, r, g, b)

\* no turn and a quarter turn
Angles == { Angle(FromInt(1), 0), Angle(0, FromInt(1)) }

Scales ==
    { Vec3(FromInt(1), FromInt(1), FromInt(1)), Vec3(FromInt(2), FromInt(2), FromInt(2)),
      Vec3(FromRatio(1, 2), FromInt(1), FromInt(2)) }

Positions == { Vec3(0, 0, 0), Vec3(FromInt(1), FromInt(2), FromInt(3)) }

\* the matrices the program composes: world matrices of objects and main's
\* projection
Matrices ==
    { updateWorldMatrix(scale, rotation, position) :
      scale \in Scales, rotation \in Angles, position \in Positions }
    \cup ProjectionMatrices

Vectors ==
    { Vec4(x, y, z, FromInt(1)) :
      x \in { 0, FromInt(1) }, y \in { 0, FromRatio(1, 2) }, z \in { FromInt(0 - 1), FromInt(2) } }

\* vec times the product of m1 and m2
Compose(m1, m2, vec) ==
    /\ pc = "idle"
    /\ lastDraw = NoDraw
    /\ lastDraw' = [kind |-> "compose", m1 |-> m1, m2 |-> m2, vec |-> vec,
                    out |-> matrixMultiplicationVec(matrixMultiplicationMatrix(m1, m2),
                                                    vec)]
    /\ UNCHANGED <<rasterVars, clipVars, hostVars, shaderVars, gpuVars,
                   pc, scene, drawn, presented>>

\* the world matrix of an object times its matrix4Inverse
Invert(scale, rotation, position) ==
    /\ pc = "idle"
    /\ lastDraw = NoDraw
    /\ \E worldMatrix \in { updateWorldMatrix(scale, rotation, position) } :
          lastDraw' = [kind |-> "inverse", scale |-> scale, m |-> worldMatrix,
                       out |-> matrixMultiplicationMatrix(worldMatrix,
                                                          matrix4Inverse(worldMatrix))]
    /\ UNCHANGED <<rasterVars, clipVars, hostVars, shaderVars, gpuVars,
                   pc, scene, drawn, presented>>

NextMatrix ==
    \/ \E m1 \in Matrices, m2 \in Matrices, vec \in Vectors : Compose(m1, m2, vec)
    \/ \E scale \in Scales, rotation \in Angles, position \in Positions :
          Invert(scale, rotation, position)

NextCalls ==
    \/ NextProject
    \/ NextSample
    \/ NextPack
    \/ NextMatrix

----------------------------------------------------------------------------
(* Rendering of objects and models: MaterialMesh::render and Model::render *)

\* an Object: its visibility, the number of its triangles and its transform
MaterialMesh(visible, triangles, scale, rotation, position) ==
    [visible |-> visible, triangles |-> triangles,
     scale |-> scale, rotation |-> rotation, position |-> position]

getWorldMatrix(object) == updateWorldMatrix(object.scale, object.rotation, object.position)

\* MaterialMesh::render with SV_WorldMatrix = world: the world matrix when it
\* returns and the world matrix in effect at each triangle it draws
MaterialMesh_render(world, mesh) ==
    IF ~mesh.visible \/ mesh.triangles = 0
    THEN [world |-> world, draws |-> <<>>]
    ELSE [world |-> getWorldMatrix(mesh),
          draws |-> [t \in 1 .. mesh.triangles |-> getWorldMatrix(mesh)]]

\* the loop of Model::render from mesh i on
RECURSIVE Model_renderFrom(_, _, _, _)
Model_renderFrom(world, modelMatrix, meshes, i) ==
    IF i > Len(meshes)
    THEN [world |-> world, draws |-> <<>>]
    ELSE \* originalWorld is world; SV_WorldMatrix is the product during
         \* mesh->render() and originalWorld again after it
         LET meshWorld == getWorldMatrix(meshes[i])
             rendered == MaterialMesh_render(matrixMultiplicationMatrix(modelMatrix, meshWorld),
                                             meshes[i])
             rest == Model_renderFrom(world, modelMatrix, meshes, i + 1)
         IN  [world |-> rest.world,
              draws |-> [t \in 1 .. Len(rendered.draws) |->
                            [mesh |-> i, world |-> rendered.draws[t]]]
                        \o rest.draws]

Model_render(world, model) ==
    IF ~model.visible
    THEN [world |-> world, draws |-> <<>>]
    ELSE Model_renderFrom(world, getWorldMatrix(model), model.meshes, 1)

NoRotation == Angle(FromInt(1), 0)

\* child meshes: one triangle and no transform; two triangles, scaled and
\* moved; a hidden mesh; a mesh without indices
RenderMeshes ==
    { MaterialMesh(TRUE, 1, Vec3(FromInt(1), FromInt(1), FromInt(1)), NoRotation, Vec3(0, 0, 0)),
      MaterialMesh(TRUE, 2, Vec3(FromInt(2), FromInt(2), FromInt(2)), NoRotation,
                   Vec3(FromInt(1), FromInt(2), FromInt(3))),
      MaterialMesh(FALSE, 1, Vec3(FromInt(2), FromInt(2), FromInt(2)), NoRotation, Vec3(0, 0, 0)),
      MaterialMesh(TRUE, 0, Vec3(FromInt(1), FromInt(1), FromInt(1)), NoRotation,
                   Vec3(FromInt(1), FromInt(2), FromInt(3))) }

MeshLists ==
    { <<>> } \cup { <<a>> : a \in RenderMeshes } \cup { <<a, b>> : a \in RenderMeshes, b \in RenderMeshes }

RenderScales == { Vec3(FromInt(1), FromInt(1), FromInt(1)), Vec3(FromInt(2), FromInt(2), FromInt(2)) }

Models ==
    { [visible |-> visible, scale |-> scale, rotation |-> rotation, position |-> position,
       meshes |-> meshes] :
      visible \in BOOLEAN, scale \in RenderScales, rotation \in Angles,
      position \in Positions, meshes \in MeshLists }

\* ObjectManager::renderAll reaching a visible object
RenderObject(obj) ==
    /\ pc = "idle"
    /\ lastDraw = NoDraw
    /\ obj.visible
    /\ SV_WorldMatrix' = MaterialMesh_render(SV_WorldMatrix, obj).world
    /\ UNCHANGED <<rasterVars, clipVars, hostVars, gpuVars, frameVars,
                   VertexShader, SV_ViewMatrix, SV_ProjectionMatrix, SV_LightDirection,
                   SV_AmbientLight, SV_SunColor, g_currentLightingFactor>>

\* main's model->render()
RenderModel(model) ==
    /\ pc = "idle"
    /\ lastDraw = NoDraw
    /\ \E rendered \in { Model_render(SV_WorldMatrix, model) } :
          /\ SV_WorldMatrix' = rendered.world
          /\ lastDraw' = [kind |-> "render", model |-> model, before |-> SV_WorldMatrix,
                          draws |-> rendered.draws]
    /\ UNCHANGED <<rasterVars, clipVars, hostVars, gpuVars,
                   pc, scene, drawn, presented,
                   VertexShader, SV_ViewMatrix, SV_ProjectionMatrix, SV_LightDirection,
                   SV_AmbientLight, SV_SunColor, g_currentLightingFactor>>

NextRender ==
    \/ \E obj \in RenderMeshes : RenderObject(obj)
    \/ \E model \in Models : RenderModel(model)

RenderStart == CallsStart /\ SV_ProjectionMatrix = MatrixIdentity

----------------------------------------------------------------------------
(* The specifications *)

InitRaster == RasterStart /\ ClipIdle /\ DrawIdle /\ HostIdle

SpecRaster == InitRaster /\ [][NextRaster]_vars

InitClip == ClipStart /\ RasterIdle /\ DrawIdle /\ HostIdle

SpecClip == InitClip /\ [][NextClip]_vars

InitFrame == FrameStart /\ ClipIdle /\ HostIdle

SpecFrame == InitFrame /\ [][NextFrame]_vars

InitDraw == ClearedBuffers /\ ClipIdle /\ DrawIdle /\ HostIdle

SpecDraw == InitDraw /\ [][NextDraw]_vars

InitBatch == HostStart /\ ClipIdle

SpecBatch == InitBatch /\ [][NextBatch]_vars

InitCalls == CallsStart /\ RasterIdle /\ ClipIdle /\ HostIdle

SpecCalls == InitCalls /\ [][NextCalls]_vars

InitRender == RenderStart /\ RasterIdle /\ ClipIdle /\ HostIdle

SpecRender == InitRender /\ [][NextRender]_vars

InitLight == LightStart /\ RasterIdle /\ ClipIdle /\ HostIdle

SpecLight == InitLight /\ [][NextLight]_vars

----------------------------------------------------------------------------
(* Claims about the depth-tested frame buffer, checked under SpecRaster *)

InBounds(x, y) == x >= 0 /\ x < RASTER_WIDTH /\ y >= 0 /\ y < RASTER_HEIGHT

\* the positions in the history of the writes attempted at pixel (x, y)
WritesAt(x, y) == { k \in 1 .. Len(writes) : writes[k].x = x /\ writes[k].y = y }

\* the least depth attempted at (x, y), or the clear depth if none is below it
MinDepthAt(x, y) ==
    LET zs == { writes[k].z : k \in WritesAt(x, y) } \cup { ClearDepth }
    IN  CHOOSE z \in zs : \A other \in zs : z <= other

\* the first write attempted at (x, y) whose depth is the least one
FirstAtMin(x, y) ==
    LET ks == { k \in WritesAt(x, y) : writes[k].z = MinDepthAt(x, y) }
    IN  CHOOSE k \in ks : \A other \in ks : k <= other

\* C1: after a clear and any pixelDrawer writes, every in-bounds pixel holds
\* the least depth attempted at it (the clear depth if none was below it) and
\* the color of the write that reached that depth (the cleared color if none).
C1_DepthMonotonicity ==
    cleared =>
        \A x \in 0 .. (RASTER_WIDTH - 1), y \in 0 .. (RASTER_HEIGHT - 1) :
            LET index == y * RASTER_WIDTH + x
            IN  /\ DEPTH_ARRAY[index] = MinDepthAt(x, y)
                /\ SCREEN_ARRAY[index] =
                       IF MinDepthAt(x, y) < ClearDepth
                       THEN writes[FirstAtMin(x, y)].color
                       ELSE STAR_BUFFER[index]

\* a pixel was written twice, the second time strictly nearer than the first
C1_Witness ==
    /\ cleared
    /\ Len(writes) >= 2
    /\ InBounds(writes[1].x, writes[1].y)
    /\ writes[2].x = writes[1].x /\ writes[2].y = writes[1].y
    /\ writes[2].z < writes[1].z /\ writes[1].z < ClearDepth
    /\ SCREEN_ARRAY[writes[1].y * RASTER_WIDTH + writes[1].x] = writes[2].color

\* the pixelDrawer call a step makes, if it makes one
IsWriteStep == Len(writes') = Len(writes) + 1

\* C2: a pixelDrawer call is accepted only when its depth is strictly less
\* than the stored depth, and then overwrites depth and color of that pixel
\* together; a call of equal or greater depth changes neither buffer.
C2_StrictDepthTest ==
    [][ IsWriteStep =>
          LET w == writes'[Len(writes')]
              index == w.y * RASTER_WIDTH + w.x
          IN  IF InBounds(w.x, w.y) /\ w.z < DEPTH_ARRAY[index]
              THEN /\ DEPTH_ARRAY' = [DEPTH_ARRAY EXCEPT ![index] = w.z]
                   /\ SCREEN_ARRAY' = [SCREEN_ARRAY EXCEPT ![index] = w.color]
              ELSE /\ DEPTH_ARRAY' = DEPTH_ARRAY
                   /\ SCREEN_ARRAY' = SCREEN_ARRAY ]_vars

\* two writes of equal depth at one pixel: the first one's color is stored
C2_Witness ==
    /\ cleared
    /\ Len(writes) >= 2
    /\ InBounds(writes[1].x, writes[1].y)
    /\ writes[2].x = writes[1].x /\ writes[2].y = writes[1].y
    /\ writes[2].z = writes[1].z /\ writes[1].z < ClearDepth
    /\ writes[2].color # writes[1].color
    /\ SCREEN_ARRAY[writes[1].y * RASTER_WIDTH + writes[1].x] = writes[1].color
    /\ DEPTH_ARRAY[writes[1].y * RASTER_WIDTH + writes[1].x] = writes[1].z

----------------------------------------------------------------------------
(* Claims about near-plane clipping, checked under SpecClip *)

\* a triangle clip has been called and has returned
TriClipped == clipIn.kind = "tri" /\ clipOut.kind = "tri"

\* a line clip has been called and has returned
LineClipped == clipIn.kind = "line" /\ clipOut.kind = "line"

InputVerts == <<clipIn.v0, clipIn.v1, clipIn.v2>>

\* the positions (1..3) of the input vertices on or in front of the plane
InIdx == { i \in 1 .. 3 : InputVerts[i].pos.z >= clipIn.nearZ }

OutIdx == (1 .. 3) \ InIdx

\* the vertex the claims describe: from a toward b, cut at the plane
PlaneCut(a, b) ==
    LET t == Fdiv(Fsub(clipIn.nearZ, a.pos.z), Fsub(b.pos.z, a.pos.z))
    IN  [pos |-> [x |-> Fadd(a.pos.x, Fmul(Fsub(b.pos.x, a.pos.x), t)),
                  y |-> Fadd(a.pos.y, Fmul(Fsub(b.pos.y, a.pos.y), t)),
                  z |-> Fadd(a.pos.z, Fmul(Fsub(b.pos.z, a.pos.z), t)),
                  w |-> Fadd(a.pos.w, Fmul(Fsub(b.pos.w, a.pos.w), t))],
         color |-> a.color,
         u |-> Fadd(a.u, Fmul(Fsub(b.u, a.u), t)),
         v |-> Fadd(a.v, Fmul(Fsub(b.v, a.v), t))]

\* C4: with all three vertices behind the plane the clipper returns 0
\* triangles; with all three on or in front of it, it returns 1 triangle
\* whose vertices are the inputs, unchanged and in the same order.
C4_AllOutAllIn ==
    TriClipped =>
        /\ InIdx = {} => clipOut.n = 0 /\ clipOut.outVerts = <<>>
        /\ InIdx = 1 .. 3 => clipOut.n = 1 /\ clipOut.outVerts = InputVerts

\* three different vertices, one of them exactly on the plane, passed through
C4_Witness ==
    /\ TriClipped
    /\ InIdx = 1 .. 3
    /\ Cardinality({clipIn.v0, clipIn.v1, clipIn.v2}) = 3
    /\ \E i \in 1 .. 3 : InputVerts[i].pos.z = clipIn.nearZ
    /\ clipOut.n = 1
    /\ clipOut.outVerts = InputVerts

\* the two triangles of a quad (apex, other, cut of other, cut of apex)
\* fanned from apex
Fan(apex, other, cutApex, cutOther) ==
    { {apex, other, cutOther}, {apex, cutOther, cutApex} }

\* C5: with exactly two vertices on or in front of the plane the clipper
\* returns 2 triangles: the quad of the two kept vertices and the two cuts of
\* the edges to the vertex behind, fanned from one of the kept vertices.
C5_TwoInQuad ==
    TriClipped /\ Cardinality(InIdx) = 2 =>
        LET vOut == InputVerts[CHOOSE k \in OutIdx : TRUE]
            i == CHOOSE k \in InIdx : TRUE
            j == CHOOSE k \in InIdx : k # i
            vI == InputVerts[i]
            vJ == InputVerts[j]
            cutI == PlaneCut(vI, vOut)
            cutJ == PlaneCut(vJ, vOut)
            o == clipOut.outVerts
        IN  /\ clipOut.n = 2
            /\ Len(o) = 6
            /\ LET tris == { {o[1], o[2], o[3]}, {o[4], o[5], o[6]} }
               IN  \/ tris = Fan(vI, vJ, cutI, cutJ)
                   \/ tris = Fan(vJ, vI, cutJ, cutI)

\* a quad with four different corners was produced
C5_Witness ==
    /\ TriClipped
    /\ Cardinality(InIdx) = 2
    /\ clipOut.n = 2
    /\ Cardinality({ clipOut.outVerts[k] : k \in 1 .. 6 }) = 4

\* C6: with exactly one vertex on or in front of the plane the clipper
\* returns 1 triangle (in-vertex, cut, cut): each cut is the in-vertex moved
\* toward one of the two out-vertices by t = (nearZ - vInZ) / (vOutZ - vInZ)
\* in position, u and v, and carries the in-vertex's color.
C6_OneInTriangle ==
    TriClipped /\ Cardinality(InIdx) = 1 =>
        LET vIn == InputVerts[CHOOSE k \in InIdx : TRUE]
            o == clipOut.outVerts
        IN  /\ clipOut.n = 1
            /\ Len(o) = 3
            /\ o[1] = vIn
            /\ \E a \in OutIdx, b \in OutIdx :
                  /\ a # b
                  /\ o[2] = PlaneCut(vIn, InputVerts[a])
                  /\ o[3] = PlaneCut(vIn, InputVerts[b])
            /\ o[2].color = vIn.color /\ o[3].color = vIn.color

\* one vertex in front, two different vertices of other colors behind
C6_Witness ==
    /\ TriClipped
    /\ Cardinality(InIdx) = 1
    /\ clipOut.n = 1
    /\ \A k \in OutIdx :
          InputVerts[k].color # InputVerts[CHOOSE i \in InIdx : TRUE].color
    /\ clipOut.outVerts[2] # clipOut.outVerts[3]
    /\ clipOut.outVerts[2].u # clipOut.outVerts[1].u

\* the triangle of the clip-count test: z = {-1, +1, +1}, near plane z = 0
IsOneBehindCase ==
    /\ TriClipped
    /\ clipIn.nearZ = FromInt(0)
    /\ \E i \in 1 .. 3 :
          /\ InputVerts[i].pos.z = FromInt(0 - 1)
          /\ \A k \in (1 .. 3) \ {i} : InputVerts[k].pos.z = FromInt(1)

\* C7 as stated: z = {-1, +1, +1} against the plane z = 0 gives exactly 1
\* triangle.
C7_AsStated == IsOneBehindCase => clipOut.n = 1

\* C7 amended: z = {-1, +1, +1} against the plane z = 0 (one vertex behind)
\* gives exactly 2 triangles.
C7_OneBehindGivesTwo == IsOneBehindCase => clipOut.n = 2 /\ Len(clipOut.outVerts) = 6

C7_Witness ==
    /\ IsOneBehindCase
    /\ clipIn.v0.pos.z = FromInt(0 - 1)
    /\ clipIn.v1 # clipIn.v2
    /\ clipOut.n = 2

\* C8: every vertex the clipping stage emits lies on or in front of the near
\* plane: all vertices of the triangles ClipTriangleToNear returns, and both
\* endpoints of a segment ClipLineToNear accepts, have z >= nearZ.
C8_OutputInFront ==
    /\ TriClipped =>
          \A k \in 1 .. Len(clipOut.outVerts) : clipOut.outVerts[k].pos.z >= clipIn.nearZ
    /\ LineClipped /\ clipOut.ok =>
          clipOut.a.z >= clipIn.nearZ /\ clipOut.b.z >= clipIn.nearZ

\* where the segment from a to b meets the plane
LineCut(a, b) ==
    LET t == Fdiv(Fsub(clipIn.nearZ, a.z), Fsub(b.z, a.z))
    IN  [x |-> Fadd(a.x, Fmul(Fsub(b.x, a.x), t)),
         y |-> Fadd(a.y, Fmul(Fsub(b.y, a.y), t)),
         z |-> clipIn.nearZ]

SamePoint(p, q) == p.x = q.x /\ p.y = q.y /\ p.z = q.z

\* C9: ClipLineToNear discards a segment with both endpoints behind the plane
\* and leaves them unchanged; accepts one with both in front, unchanged; and
\* with exactly one in front accepts it, replaces the endpoint behind by the
\* cut at t = (nearZ - aZ) / (bZ - aZ) and leaves the other endpoint unchanged.
C9_LineClip ==
    LineClipped =>
        LET a == clipIn.a
            b == clipIn.b
            aIn == a.z >= clipIn.nearZ
            bIn == b.z >= clipIn.nearZ
        IN  /\ ~aIn /\ ~bIn => ~clipOut.ok /\ clipOut.a = a /\ clipOut.b = b
            /\ aIn /\ bIn => clipOut.ok /\ clipOut.a = a /\ clipOut.b = b
            /\ aIn /\ ~bIn =>
                  clipOut.ok /\ clipOut.a = a /\ SamePoint(clipOut.b, LineCut(a, b))
            /\ ~aIn /\ bIn =>
                  clipOut.ok /\ clipOut.b = b /\ SamePoint(clipOut.a, LineCut(a, b))

\* a segment whose first endpoint was behind the plane and was moved
C9_Witness ==
    /\ LineClipped
    /\ clipIn.a.z < clipIn.nearZ /\ clipIn.b.z > clipIn.nearZ
    /\ clipOut.ok
    /\ clipOut.a # clipIn.a /\ clipOut.a.z = clipIn.nearZ
    /\ clipOut.a.x # clipIn.b.x
    /\ clipOut.b = clipIn.b


----------------------------------------------------------------------------
(* Claims on the frame loop *)

\* the screen-space vertices DrawTriangle computes for a recorded call
ScreenOf(d) == <<ShadeToScreen(d.v0), ShadeToScreen(d.v1), ShadeToScreen(d.v2)>>

\* edge1x * edge2y - edge1y * edge2x of a recorded call
AreaOf(d) == The({ signedArea(sv[1], sv[2], sv[3]) : sv \in { ScreenOf(d) } })

\* the pixels whose centre the scalar path finds inside the triangle t of a
\* mesh; none when the triangle is culled
Footprint(t) ==
    The({ IF FGe(signedArea(sv[1], sv[2], sv[3]), 0) THEN {}
          ELSE { i \in Pixels :
                 Inside(baryRatio(sv[1], sv[2], sv[3],
                                  FromInt(i % RASTER_WIDTH), FromInt(i \div RASTER_WIDTH))) } :
          sv \in { ScreenOf(t) } })

\* the triangles of the mesh cover no pixel twice
NonOverlapping ==
    \A i, j \in 1 .. Len(scene) :
        i # j => Footprint(scene[i]) \cap Footprint(scene[j]) = {}

\* both backends have shown a frame of the scene
BothPresented == presented.cpu # NoFrame /\ presented.gpu # NoFrame

\* C3: backend equivalence: for the same stream of triangles with
\* non-overlapping screen footprints and the same world, view and projection
\* matrices, the color buffer the scalar backend produces is identical at
\* every pixel to the color buffer the parallel backend produces.
C3_BackendEquivalence ==
    BothPresented /\ NonOverlapping => presented.cpu = presented.gpu

\* a step of the scalar path that is one DrawTriangle call
IsDrawTriangle == pc = "render" /\ ~useGPU /\ drawn' = drawn + 1

\* C10: backface cull: DrawTriangle writes no pixel (the color and depth
\* buffers are left unchanged) whenever the screen-space signed area of the
\* triangle is >= 0, which includes every triangle of zero area; only
\* triangles of negative signed area reach fillTriangle.
C10_BackfaceCull ==
    [][IsDrawTriangle =>
         \E area \in { AreaOf(lastDraw') } :
            /\ FGe(area, 0) => /\ SCREEN_ARRAY' = SCREEN_ARRAY
                               /\ DEPTH_ARRAY' = DEPTH_ARRAY
                               /\ ~lastDraw'.filled
            /\ lastDraw'.filled => FLt(area, 0)]_vars

\* a frame of the scalar path is cleared and not drawn into
StillClear ==
    /\ cleared
    /\ SCREEN_ARRAY = STAR_BUFFER
    /\ DEPTH_ARRAY = [i \in Pixels |-> ClearDepth]

\* a triangle of zero area has been drawn first in a frame and the buffers
\* are as the clear left them
C10_Witness ==
    /\ pc = "render" /\ ~useGPU /\ drawn = 1
    /\ lastDraw.kind = "draw"
    /\ AreaOf(lastDraw) = 0
    /\ ~lastDraw.filled
    /\ StillClear

\* a back-facing triangle has been drawn first and the buffers are as the
\* clear left them
C10_BackFacing ==
    /\ pc = "render" /\ ~useGPU /\ drawn = 1
    /\ lastDraw.kind = "draw"
    /\ FLt(0, AreaOf(lastDraw))
    /\ ~lastDraw.filled
    /\ StillClear

\* a triangle of negative area has been filled and has written pixels
C10_FrontFacing ==
    /\ pc = "render" /\ ~useGPU /\ drawn = 1
    /\ lastDraw.kind = "draw"
    /\ FLt(AreaOf(lastDraw), 0)
    /\ lastDraw.filled
    /\ ~StillClear

----------------------------------------------------------------------------
(* Claims about the backface test, checked under SpecDraw *)

\* the pixel a screen-space vertex is at
PixelOf(v) == <<Trunc(v.pos.x), Trunc(v.pos.y)>>

\* the screen-space corners of a recorded call, in the order given
CornersOf(d) == The({ <<PixelOf(sv[1]), PixelOf(sv[2]), PixelOf(sv[3])>> : sv \in { ScreenOf(d) } })

\* the triangle (0,0), (1,0), (0,1) and the three got by swapping two corners
UnitTriangle == << <<0, 0>>, <<1, 0>>, <<0, 1>> >>

UnitTriangleSwaps ==
    { << <<1, 0>>, <<0, 0>>, <<0, 1>> >>,
      << <<0, 1>>, <<1, 0>>, <<0, 0>> >>,
      << <<0, 0>>, <<0, 1>>, <<1, 0>> >> }

\* C11 as stated: a triangle with screen-space vertices (0,0), (1,0), (0,1)
\* in that order is retained by the backface test, and the triangle obtained
\* by swapping any two of its vertices is culled.
C11_AsStated ==
    lastDraw.kind = "draw" =>
        /\ CornersOf(lastDraw) = UnitTriangle => lastDraw.filled
        /\ CornersOf(lastDraw) \in UnitTriangleSwaps => ~lastDraw.filled

\* C11 as the code has it: the triangle (0,0), (1,0), (0,1) has signed area
\* +1 and is culled, and the triangle obtained by swapping any two of its
\* vertices has signed area -1 and is retained.
C11_UnitTriangleCulled ==
    lastDraw.kind = "draw" =>
        /\ CornersOf(lastDraw) = UnitTriangle =>
              ~lastDraw.filled /\ AreaOf(lastDraw) = FromInt(1) /\ StillClear
        /\ CornersOf(lastDraw) \in UnitTriangleSwaps =>
              lastDraw.filled /\ AreaOf(lastDraw) = FromInt(0 - 1)

\* the triangle (0,0), (1,0), (0,1) has been drawn and nothing was written
C11_Witness ==
    /\ lastDraw.kind = "draw"
    /\ CornersOf(lastDraw) = UnitTriangle
    /\ ~lastDraw.filled
    /\ StillClear

\* a swapped one has been drawn and has written pixels
C11_SwapDrawn ==
    /\ lastDraw.kind = "draw"
    /\ CornersOf(lastDraw) \in UnitTriangleSwaps
    /\ lastDraw.filled
    /\ ~StillClear

----------------------------------------------------------------------------
(* Claims about buffer bounds, checked under SpecRaster *)

\* C12: no bounds violation: for any pixel coordinates, negative or beyond
\* the width or height included, pixelDrawer reads and writes the color and
\* depth buffers only at an index in [0, RASTER_WIDTH * RASTER_HEIGHT), the
\* index of the pixel named, and coordinates out of range cause no write.
C12_NoBoundsViolation ==
    [][ IsWriteStep =>
          \E w \in { writes'[Len(writes')] } :
             /\ DOMAIN SCREEN_ARRAY' = Pixels
             /\ DOMAIN DEPTH_ARRAY' = Pixels
             /\ ~InBounds(w.x, w.y) =>
                   SCREEN_ARRAY' = SCREEN_ARRAY /\ DEPTH_ARRAY' = DEPTH_ARRAY
             /\ InBounds(w.x, w.y) =>
                   /\ w.y * RASTER_WIDTH + w.x \in Pixels
                   /\ \A i \in Pixels \ { w.y * RASTER_WIDTH + w.x } :
                         SCREEN_ARRAY'[i] = SCREEN_ARRAY[i] /\ DEPTH_ARRAY'[i] = DEPTH_ARRAY[i] ]_vars

\* a write one past the end of a row, whose index would be that of the first
\* pixel of the next row, was attempted with a depth that passes, and the
\* buffers are as the clear left them
C12_Witness ==
    /\ cleared
    /\ Len(writes) = 1
    /\ writes[1].x = RASTER_WIDTH /\ writes[1].y = 0
    /\ writes[1].z < ClearDepth
    /\ StillClear

----------------------------------------------------------------------------
(* Claims about the batches of a frame, checked under SpecBatch *)

\* the key of a batch, or of the arguments of an uploadTexture call
KeyOf(b) == <<b.textureData, b.width, b.height>>

\* the key no batch has
NoKey == <<"nullptr", 0, 0>>

\* the key bound by the last uploadTexture among the first n calls that was
\* not refused, NoKey if there is none
RECURSIVE BoundAfter(_)
BoundAfter(n) ==
    IF n = 0 THEN NoKey
    ELSE IF /\ calls[n].op = "uploadTexture"
            /\ calls[n].textureData # "nullptr"
            /\ calls[n].width > 0 /\ calls[n].height > 0
         THEN KeyOf(calls[n])
         ELSE BoundAfter(n - 1)

\* the three vertices a call hands over, as the GLCompute stores them
StoredTextured(c) ==
    << GPUVertex(c.v0.pos.x, c.v0.pos.y, c.v0.pos.z, FromInt(1), c.v0.color, c.v0.u, c.v0.v, FromInt(1)),
       GPUVertex(c.v1.pos.x, c.v1.pos.y, c.v1.pos.z, FromInt(1), c.v1.color, c.v1.u, c.v1.v, FromInt(1)),
       GPUVertex(c.v2.pos.x, c.v2.pos.y, c.v2.pos.z, FromInt(1), c.v2.color, c.v2.u, c.v2.v, FromInt(1)) >>

\* the vertices of the textured triangles among the first n calls that were
\* added while key was bound
RECURSIVE AddedUnder(_, _)
AddedUnder(key, n) ==
    IF n = 0 THEN <<>>
    ELSE AddedUnder(key, n - 1)
         \o (IF calls[n].op = "addTexturedTriangle" /\ BoundAfter(n - 1) = key
             THEN StoredTextured(calls[n])
             ELSE <<>>)

\* C13: texture-batch invariant: after any sequence of beginFrame,
\* uploadTexture, addTexturedTriangle and addTriangle calls on an initialized
\* GLCompute no two textured batches have the same (texture pointer, width,
\* height) key, and every triangle stored in a batch was added while that
\* batch's texture was the one most recently bound by uploadTexture.
C13_TextureBatches ==
    g_GLCompute.initialized /\ pc = "submit" =>
        \E batches \in { g_GLCompute.texturedBatches } :
           /\ \A i, j \in 1 .. Len(batches) :
                 KeyOf(batches[i]) = KeyOf(batches[j]) => i = j
           /\ \A i \in 1 .. Len(batches) :
                 /\ KeyOf(batches[i]) # NoKey
                 /\ batches[i].triangles = AddedUnder(KeyOf(batches[i]), Len(calls))
           /\ g_GLCompute.activeTextureBatch # 0 <=> BoundAfter(Len(calls)) # NoKey
           /\ g_GLCompute.activeTextureBatch # 0 =>
                 KeyOf(batches[g_GLCompute.activeTextureBatch]) = BoundAfter(Len(calls))

\* a texture was bound twice and a triangle added then: there is one batch
\* with its key, and the triangle is in it
C13_Witness ==
    /\ g_GLCompute.initialized /\ pc = "submit"
    /\ Len(calls) = 3
    /\ calls[1].op = "uploadTexture" /\ calls[2] = calls[1]
    /\ calls[3].op = "addTexturedTriangle"
    /\ Len(g_GLCompute.texturedBatches) = 1
    /\ g_GLCompute.texturedBatches[1].triangles = StoredTextured(calls[3])

\* a texture was bound, another one after it, and a triangle added then is
\* in the second batch
C13_SecondBatch ==
    /\ g_GLCompute.initialized /\ pc = "submit"
    /\ Len(g_GLCompute.texturedBatches) = 2
    /\ g_GLCompute.activeTextureBatch = 2
    /\ g_GLCompute.texturedBatches[1].triangles = <<>>
    /\ g_GLCompute.texturedBatches[2].triangles # <<>>

----------------------------------------------------------------------------
(* C14 *)

\* the textured batches that hold a triangle, in the order they were created
NonEmptyBatches(g) == SelectSeq(g.texturedBatches, LAMBDA batch : batch.triangles # <<>>)

IsInvocation(cmd) == cmd.op = "glDispatchCompute"

\* the k-th command invokes the kernel for a textured batch alone
TexturedInvocation(cmd, batch) ==
    /\ IsInvocation(cmd)
    /\ cmd.triangles = batch.triangles
    /\ cmd.numTriangles * 3 = Len(batch.triangles)
    /\ cmd.useTexture = TRUE
    /\ cmd.texWidth = batch.width /\ cmd.texHeight = batch.height
    /\ cmd.texture.pixels = Textures[batch.textureData].pixels
    /\ cmd.lines = <<>> /\ cmd.numLines = 0

\* the command invokes the kernel for the solid batch and all the lines
SolidInvocation(cmd, g) ==
    /\ IsInvocation(cmd)
    /\ cmd.triangles = g.solidTriangleData
    /\ cmd.numTriangles * 3 = Len(g.solidTriangleData)
    /\ cmd.useTexture = FALSE
    /\ cmd.texWidth = 0 /\ cmd.texHeight = 0
    /\ cmd.lines = g.lineData /\ cmd.numLines * 2 = Len(g.lineData)

C14_SkipsEmptyBatch ==
    /\ pc = "dispatched" /\ g_GLCompute.initialized
    /\ Len(g_GLCompute.texturedBatches) = 2
    /\ g_GLCompute.texturedBatches[1].triangles = <<>>
    /\ Len(issued) = 5
    /\ issued[3].lines = <<>>

\* a dispatch of a textured batch and a line
C14_WithLines ==
    /\ pc = "dispatched" /\ g_GLCompute.initialized
    /\ Len(NonEmptyBatches(g_GLCompute)) = 1
    /\ g_GLCompute.lineData # <<>>
    /\ issued[1].lines = <<>> /\ issued[3].lines # <<>>

----------------------------------------------------------------------------
(* C15 *)

\* how many of the calls since the last beginFrame are one of ops
CallsOf(ops) == Cardinality({ k \in 1 .. Len(calls) : calls[k].op \in ops })

\* the triangles and the lines of the invocations issued, from the k-th
\* command on
RECURSIVE IssuedTriangles(_)
IssuedTriangles(k) ==
    IF k > Len(issued) THEN 0
    ELSE (IF IsInvocation(issued[k]) THEN issued[k].numTriangles ELSE 0)
         + IssuedTriangles(k + 1)

RECURSIVE IssuedLines(_)
IssuedLines(k) ==
    IF k > Len(issued) THEN 0
    ELSE (IF IsInvocation(issued[k]) THEN issued[k].numLines ELSE 0)
         + IssuedLines(k + 1)

\* C15: once beginFrame has returned and nothing has been submitted yet, the
\* solid batch is empty, there is no textured batch, the line list is empty,
\* no batch is active and the counters of the frame are zero; and a dispatch
\* invokes the kernel for as many triangles and lines as were submitted since
\* the last beginFrame, none of an earlier frame among them.
C15_PerFrameBatches ==
    /\ pc = "submit" /\ calls = <<>> =>
          /\ g_GLCompute.solidTriangleData = <<>>
          /\ g_GLCompute.texturedBatches = <<>>
          /\ g_GLCompute.lineData = <<>>
          /\ g_GLCompute.activeTextureBatch = 0
          /\ g_GLCompute.texturedTrianglesThisFrame = 0
          /\ g_GLCompute.solidTrianglesThisFrame = 0
    /\ pc = "dispatched" /\ g_GLCompute.initialized =>
          /\ IssuedTriangles(1) = CallsOf({ "addTriangle", "addTexturedTriangle" })
          /\ IssuedLines(1) = CallsOf({ "addLine" })

\* beginFrame has returned after a frame whose dispatch drew a triangle
C15_Witness ==
    /\ pc = "submit" /\ calls = <<>>
    /\ g_GLCompute.initialized
    /\ \E i \in Pixels : g_GLCompute.pixelBuffer[i] # GpuClearColor

\* a dispatch of a frame in which nothing was submitted
C15_EmptyFrameDispatched ==
    /\ pc = "dispatched" /\ calls = <<>>
    /\ g_GLCompute.initialized
    /\ Len(issued) = 3 /\ issued[1].numTriangles = 0 /\ issued[1].numLines = 0

----------------------------------------------------------------------------
(* C16 *)

\* the pixels the scalar path has drawn into since the clear
DrawnOver == UNION { Footprint(scene[k]) : k \in 1 .. Len(scene) }

\* the triangles of a list of GPUVertex, three by three
GpuTriangles(data) ==
    { <<KernelVertex(data[3 * k + 1]), KernelVertex(data[3 * k + 2]),
        KernelVertex(data[3 * k + 3])>> : k \in 0 .. (Len(data) \div 3) - 1 }

\* the pixels within a triangle of the list, or on the bounding box of a line
\* of the lines
CoveredBy(triangles, lines) ==
    { i \in Pixels :
        \/ \E t \in GpuTriangles(triangles) :
              /\ FLt(signedArea(t[1], t[2], t[3]), 0)
              /\ Inside(baryRatio(t[1], t[2], t[3],
                                  FromInt(i % RASTER_WIDTH), FromInt(i \div RASTER_WIDTH)))
        \/ \E k \in 0 .. (Len(lines) \div 2) - 1 :
              InBox(FromInt(i % RASTER_WIDTH), FromInt(i \div RASTER_WIDTH),
                    KernelVertex(lines[2 * k + 1]), KernelVertex(lines[2 * k + 2]),
                    KernelVertex(lines[2 * k + 2])) }

\* the pixels a primitive of the frame dispatched covers
Dispatched ==
    UNION { CoveredBy(issued[k].triangles, issued[k].lines) :
            k \in { j \in 1 .. Len(issued) : IsInvocation(issued[j]) } }

C16_ScalarFrame ==
    /\ pc = "scalar"
    /\ DrawnOver # {} /\ DrawnOver # Pixels
    /\ \E i \in DrawnOver : SCREEN_ARRAY[i] = Red \/ DEPTH_ARRAY[i] # ClearDepth

----------------------------------------------------------------------------
(* C17 *)

\* the step is a dispatch or an uploadTexture call
IsDispatchOrUpload ==
    \/ pc = "submit" /\ pc' = "dispatched"
    \/ /\ pc = "submit" /\ Len(calls') = Len(calls) + 1
       /\ calls'[Len(calls')].op = "uploadTexture"

\* C17: when GPU_Init fails the GLCompute is left uninitialized and main
\* sets useGPU to false, and when it succeeds useGPU stays true; GPU_Init is
\* called at the start of main only; from then on an uninitialized GLCompute
\* stays uninitialized and useGPU false, SCREEN_ARRAY is written by the
\* scalar path alone, and a dispatch or an uploadTexture call changes neither
\* the GLCompute nor the caller's array and asks nothing of OpenGL.
C17_RecoverableFailure ==
    [][ /\ pc = "start" =>
              /\ pc' = "submit"
              /\ useGPU' = g_GLCompute'.initialized
              /\ ~useGPU' => g_GLCompute' = g_GLCompute
        /\ pc # "start" => pc' # "start"
        /\ pc # "start" /\ ~g_GLCompute.initialized =>
              /\ ~g_GLCompute'.initialized
              /\ ~useGPU /\ ~useGPU'
              /\ SCREEN_ARRAY' # SCREEN_ARRAY => pc' = "scalar"
              /\ IsDispatchOrUpload =>
                    /\ g_GLCompute' = g_GLCompute
                    /\ SCREEN_ARRAY' = SCREEN_ARRAY
                    /\ issued' = <<>>
      ]_vars

\* GPU_Init failed, uploadTexture and addTriangle were called all the same,
\* and dispatch returned with the caller's array as it was allocated
C17_Witness ==
    /\ pc = "dispatched"
    /\ ~g_GLCompute.initialized /\ ~useGPU
    /\ \E k \in 1 .. Len(calls) : calls[k].op = "uploadTexture"
    /\ g_GLCompute.solidTriangleData # <<>>
    /\ g_GLCompute.texturedBatches = <<>>
    /\ issued = <<>>
    /\ \A i \in Pixels : SCREEN_ARRAY[i] = Cyan

\* GPU_Init failed and a frame of the scalar path has drawn a triangle
C17_ScalarFrames ==
    /\ pc = "scalar"
    /\ ~g_GLCompute.initialized /\ ~useGPU
    /\ g_GLCompute = GLComputeNew
    /\ \E i \in Pixels : SCREEN_ARRAY[i] = Red \/ DEPTH_ARRAY[i] # ClearDepth

----------------------------------------------------------------------------
(* C18 *)

\* the view-space depths of the vertices of a recorded DrawTriangle call
ViewDepths(d) ==
    { TransformToView(v).pos.z : v \in { d.v0, d.v1, d.v2 } }

\* C18 as stated, for the scalar path: a triangle that has reached
\* fillTriangle has been through near-plane clipping, so none of its
\* vertices is nearer than the near plane.
C18_PipelineOrder ==
    pc = "render" /\ ~useGPU /\ lastDraw.kind = "draw" /\ lastDraw.filled =>
        \A z \in ViewDepths(lastDraw) : FGe(z, kNear)

----------------------------------------------------------------------------
(* C19 *)

\* the dot product of the face normal of the last calculateLighting call
\* with the normalized light direction
NdotLOf(d) == vec3Dot(d.faceNormal, vec3Normalize(SV_LightDirection))

\* C19: calculateLighting returns ambient + (1 - ambient) * max(0, NdotL),
\* or 1 when that is more than 1; with the ambient level within [0, 1] the
\* factor is within [ambient, 1], and it is the ambient level itself for a
\* face with NdotL <= 0.
C19_LightingFactor ==
    lastDraw.kind = "light" =>
        \E NdotL \in { NdotLOf(lastDraw) } :
           /\ g_currentLightingFactor =
                  Fmin(FromInt(1),
                       Fadd(SV_AmbientLight,
                            Fmul(Fsub(FromInt(1), SV_AmbientLight), Fmax(0, NdotL))))
           /\ FLe(SV_AmbientLight, g_currentLightingFactor)
           /\ FLe(g_currentLightingFactor, FromInt(1))
           /\ FLe(NdotL, 0) => g_currentLightingFactor = SV_AmbientLight

\* a face turned away from the light, under an ambient level strictly
\* between 0 and 1, has got the ambient level as its factor
C19_Witness ==
    /\ lastDraw.kind = "light"
    /\ FLt(NdotLOf(lastDraw), 0)
    /\ FLt(0, SV_AmbientLight) /\ FLt(SV_AmbientLight, FromInt(1))
    /\ g_currentLightingFactor = SV_AmbientLight

\* a face turned to the light has got a factor strictly between the ambient
\* level and 1
C19_Lit ==
    /\ lastDraw.kind = "light"
    /\ FLt(0, NdotLOf(lastDraw))
    /\ FLt(SV_AmbientLight, g_currentLightingFactor)
    /\ FLt(g_currentLightingFactor, FromInt(1))

----------------------------------------------------------------------------
(* C20 *)

\* C20 as stated: the factor calculateLighting gives a face is the factor
\* GPU_DrawTriangle and GPU_DrawTexturedTriangle give it, under every light
\* direction and ambient level.
C20_OneLightingPolicy ==
    lastDraw.kind = "light" =>
        g_currentLightingFactor = LightingTotal(AbsNdotL(lastDraw.faceNormal))

----------------------------------------------------------------------------
(* The end-to-end scenario of the scalar path, checked under SpecDraw *)

\* N.L of a recorded call: the face normal of the world-space positions
\* against the normalized light direction
FaceNdotL(d) ==
    vec3Dot(calculateFaceNormal(matrixMultiplicationVec(SV_WorldMatrix, d.v0.pos),
                                matrixMultiplicationVec(SV_WorldMatrix, d.v1.pos),
                                matrixMultiplicationVec(SV_WorldMatrix, d.v2.pos)),
            vec3Normalize(SV_LightDirection))

\* the three screen-space corners of a recorded call are pixels of the buffer
FullyInside(d) ==
    \A k \in 1 .. 3 : InBounds(CornersOf(d)[k][1], CornersOf(d)[k][2])

\* one front-facing triangle lying inside the buffer has been drawn after a
\* clear, with the light along its normal
LitScenario ==
    /\ cleared
    /\ lastDraw.kind = "draw"
    /\ lastDraw.filled
    /\ FullyInside(lastDraw)
    /\ FaceNdotL(lastDraw) = FromInt(1)

\* ambient + (1 - ambient) * 1, clamped to 1
FullFactor ==
    Fmin(FromInt(1), Fadd(SV_AmbientLight,
                          Fmul(Fsub(FromInt(1), SV_AmbientLight), FromInt(1))))

\* a channel scaled by a factor and by a further channel factor, as an
\* unsigned value of at most 255
ScaledBy(c, factor, tint) ==
    Fmin(255, Trunc(Fmul(Fmul(FromInt(c), factor), tint)))

\* the flat color with every channel scaled by the factor, and by the tint
\* of its channel
FlatScaled(color, factor, tint) ==
    Pack(AlphaOf(color), ScaledBy(RedOf(color), factor, tint.x),
         ScaledBy(GreenOf(color), factor, tint.y),
         ScaledBy(BlueOf(color), factor, tint.z))

NoTint == Vec3(FromInt(1), FromInt(1), FromInt(1))

\* the depth fillTriangle interpolates for the pixel i of a recorded call
DepthAt(d, i) ==
    The({ Interpolate(sv[1].pos.z, sv[2].pos.z, sv[3].pos.z,
                      baryRatio(sv[1], sv[2], sv[3],
                                FromInt(i % RASTER_WIDTH), FromInt(i \div RASTER_WIDTH))) :
          sv \in { ScreenOf(d) } })

\* the pixels the triangle does not cover are as the clear left them
UncoveredKept(d) ==
    \A i \in Pixels \ Footprint(d) :
        SCREEN_ARRAY[i] = STAR_BUFFER[i] /\ DEPTH_ARRAY[i] = ClearDepth

\* C21 as stated: in the scenario every covered pixel holds the flat color
\* scaled per channel by ambient + (1 - ambient) * 1 alone and the
\* interpolated depth, and every other pixel is as the clear left it
C21_AsStated ==
    LitScenario =>
        /\ \A i \in Footprint(lastDraw) :
              /\ SCREEN_ARRAY[i] = FlatScaled(lastDraw.v0.color, FullFactor, NoTint)
              /\ DEPTH_ARRAY[i] = DepthAt(lastDraw, i)
        /\ UncoveredKept(lastDraw)

\* C21: in the scenario every covered pixel holds the flat color scaled per
\* channel by ambient + (1 - ambient) * 1 and by the channel of SV_SunColor,
\* so that 0xFFFF0000 stays 0xFFFF0000 under the sun color (1, 0.95, 0.8),
\* and the interpolated depth; every other pixel is as the clear left it
C21_EndToEnd ==
    LitScenario =>
        /\ \A i \in Footprint(lastDraw) :
              /\ SCREEN_ARRAY[i] = FlatScaled(lastDraw.v0.color, FullFactor, SV_SunColor)
              /\ DEPTH_ARRAY[i] = DepthAt(lastDraw, i)
        /\ lastDraw.v0.color = Red =>
              \A i \in Footprint(lastDraw) : SCREEN_ARRAY[i] = Red
        /\ UncoveredKept(lastDraw)

\* a white triangle drawn in the scenario: its pixels are tinted, their depth
\* is the triangle's, and a pixel beside it is still clear
C21_Witness ==
    /\ LitScenario
    /\ lastDraw.v0.color = White
    /\ \E i \in Footprint(lastDraw) :
          /\ RedOf(SCREEN_ARRAY[i]) = 255
          /\ GreenOf(SCREEN_ARRAY[i]) < 255
          /\ BlueOf(SCREEN_ARRAY[i]) < GreenOf(SCREEN_ARRAY[i])
          /\ DEPTH_ARRAY[i] = FromRatio(1, 2)
    /\ \E i \in Pixels \ Footprint(lastDraw) : SCREEN_ARRAY[i] = SpaceColor

\* the red triangle of the scenario: 0xFFFF0000 on every pixel it covers
C21_RedKept ==
    /\ LitScenario
    /\ lastDraw.v0.color = Red
    /\ Footprint(lastDraw) # {}
    /\ \A i \in Footprint(lastDraw) : SCREEN_ARRAY[i] = Red

----------------------------------------------------------------------------
(* The perspective divide, checked under SpecCalls *)

\* the clip-space position of a recorded call: PS_WVP and transformToScreen
\* start from the model's space, the other two from view space
ClipPosOf(d) ==
    IF d.by \in { "PS_WVP", "transformToScreen" }
    THEN matrixMultiplicationVec(SV_ProjectionMatrix,
             matrixMultiplicationVec(SV_ViewMatrix,
                 matrixMultiplicationVec(SV_WorldMatrix, d.v.pos)))
    ELSE matrixMultiplicationVec(SV_ProjectionMatrix, d.v.pos)

\* x, y and z of the position p with nothing but the screen mapping applied,
\* which PS_WVP leaves to toScreen
Undivided(by, p) ==
    IF by = "PS_WVP" THEN <<p.x, p.y, p.z>>
    ELSE <<Fmul(Fmul(Fadd(p.x, FromInt(1)), FromRatio(1, 2)), FromInt(RASTER_WIDTH)),
           Fmul(Fmul(Fsub(FromInt(1), p.y), FromRatio(1, 2)), FromInt(RASTER_HEIGHT)),
           p.z>>

C22_ShaderNoOpDivide ==
    lastDraw.kind = "project" /\ lastDraw.by \in { "PS_WVP", "transformToScreen" } =>
        \E p \in { ClipPosOf(lastDraw) } :
            p.w = 0 =>
                <<lastDraw.out.pos.x, lastDraw.out.pos.y, lastDraw.out.pos.z>>
                    = Undivided(lastDraw.by, p)

\* PS_WVP has been given a vertex whose projected w is 0 and x is not
C22_ShaderCase ==
    /\ lastDraw.kind = "project" /\ lastDraw.by = "PS_WVP"
    /\ ClipPosOf(lastDraw).w = 0
    /\ ClipPosOf(lastDraw).x # 0
    /\ lastDraw.out.pos = ClipPosOf(lastDraw)

----------------------------------------------------------------------------
(* Texture sampling, checked under SpecCalls *)

\* the coordinate the clamp stands for: 1 for any c above 1, 0 for any c
\* below 0
Nearest(c) == IF c > FromInt(1) THEN FromInt(1) ELSE IF c < 0 THEN 0 ELSE c

\* the recorded sampler called again on the same texture
SampleAgain(d, u, v) ==
    IF d.by = "sampleTexture" THEN sampleTexture(d.texture, u, v)
    ELSE Texture_sample(d.texture, u, v)

\* C23: sampling at u > 1 gives the texel of u = 1, at u < 0 the texel of
\* u = 0, and likewise for v, on every texture of at least 1 x 1
C23_UVClamping ==
    lastDraw.kind = "sample" =>
        lastDraw.out = SampleAgain(lastDraw, Nearest(lastDraw.u), Nearest(lastDraw.v))

\* sampleTexture at u = 1.5, v = -0.3 on the 3 x 2 texture gave the last
\* texel of the first row
C23_Witness ==
    /\ lastDraw.kind = "sample" /\ lastDraw.by = "sampleTexture"
    /\ lastDraw.texture.width = 3
    /\ lastDraw.u = FromRatio(3, 2) /\ lastDraw.v = 0 - FromRatio(3, 10)
    /\ lastDraw.out = White

\* Texture::sample at u = -0.3, v = 1.5 on the loaded 3 x 2 texture gave the
\* first texel of the last row
C23_GameTexture ==
    /\ lastDraw.kind = "sample" /\ lastDraw.by = "Texture::sample"
    /\ lastDraw.texture.width_ = 3 /\ lastDraw.texture.loaded_
    /\ lastDraw.u = 0 - FromRatio(3, 10) /\ lastDraw.v = FromRatio(3, 2)
    /\ lastDraw.out = Green

----------------------------------------------------------------------------
(* The packed color, checked under SpecCalls *)

\* C24: four channels of 0 .. 255 packed into a color and unpacked with the
\* shifts and masks of applyLighting come back as they were
C24_ColorRoundTrip ==
    lastDraw.kind = "pack" =>
        lastDraw.out = <<lastDraw.a, lastDraw.r, lastDraw.g, lastDraw.b>>

\* a = 255, r = 10, g = 20, b = 30 has been packed as 0xFF0A141E and unpacked
C24_Witness ==
    /\ lastDraw.kind = "pack"
    /\ lastDraw.color = <<255 * 256 + 10, 20 * 256 + 30>>
    /\ lastDraw.out = <<255, 10, 20, 30>>

----------------------------------------------------------------------------
(* The matrix functions, checked under SpecCalls *)

\* the greatest distance between two vectors in one coordinate
Distance(p, q) ==
    Fmax(Fmax(Abs(p.x - q.x), Abs(p.y - q.y)), Fmax(Abs(p.z - q.z), Abs(p.w - q.w)))

\* m1 applied to the vector of a recorded call and then m2 to the result
OneThenOther(m1, m2, vec) == matrixMultiplicationVec(m2, matrixMultiplicationVec(m1, vec))

\* C25 to the last bit: the product of m1 and m2 applied to a vector is m1
\* applied to it and then m2 applied to the result
C25_Exactly ==
    lastDraw.kind = "compose" =>
        lastDraw.out = OneThenOther(lastDraw.m1, lastDraw.m2, lastDraw.vec)

C25_Projected ==
    /\ lastDraw.kind = "compose"
    /\ lastDraw.m2 \in ProjectionMatrices /\ lastDraw.m1 \notin ProjectionMatrices
    /\ lastDraw.m1[4][3] # 0 /\ lastDraw.m1[1][1] # FromInt(1)
    /\ Distance(lastDraw.out, OneThenOther(lastDraw.m1, lastDraw.m2, lastDraw.vec)) <= 1
    /\ Distance(lastDraw.out, OneThenOther(lastDraw.m2, lastDraw.m1, lastDraw.vec))
          >= FromInt(1)

\* C26: a matrix of a rotation and scale block and a translation row times
\* its matrix4Inverse is the identity
C26_AffineInverse == lastDraw.kind = "inverse" => lastDraw.out = MatrixIdentity

\* the same of the matrices that do not scale
C26_RigidInverse ==
    lastDraw.kind = "inverse" /\ lastDraw.scale = Vec3(FromInt(1), FromInt(1), FromInt(1)) =>
        lastDraw.out = MatrixIdentity

\* a rotated and translated matrix has been inverted
C26_RigidCase ==
    /\ lastDraw.kind = "inverse"
    /\ lastDraw.scale = Vec3(FromInt(1), FromInt(1), FromInt(1))
    /\ lastDraw.m[2][3] # 0
    /\ lastDraw.m[4][1] # 0
    /\ lastDraw.out = MatrixIdentity

----------------------------------------------------------------------------
(* The winding of clipped triangles, checked under SpecClip *)

\* the k-th triangle ClipTriangleToNear emitted
OutTriangle(k) ==
    <<clipOut.outVerts[3 * k - 2], clipOut.outVerts[3 * k - 1], clipOut.outVerts[3 * k]>>

\* the sign of the x, y signed area of three vertices in the order given
Winding(tri) == The({ IF area = 0 THEN 0 ELSE Sign(area) : area \in { signedArea(tri[1], tri[2], tri[3]) } })

\* the input triangle has area and has vertices on both sides of the plane
Straddles == TriClipped /\ InIdx # {} /\ OutIdx # {} /\ Winding(InputVerts) # 0

\* C27: every triangle emitted for an input that straddles the plane has
\* the winding of the input
C27_WindingPreserved ==
    Straddles => \A k \in 1 .. clipOut.n : Winding(OutTriangle(k)) = Winding(InputVerts)

\* the same of the numIn == 1 branch alone
C27_OneInWinding ==
    Straddles /\ Cardinality(InIdx) = 1 =>
        \A k \in 1 .. clipOut.n : Winding(OutTriangle(k)) \in { Winding(InputVerts), 0 }

\* an input with two vertices in front has come out as two triangles with
\* area, both of the winding opposite to the input's
C27_TwoInFlipped ==
    /\ Straddles /\ Cardinality(InIdx) = 2
    /\ clipOut.n = 2
    /\ \A k \in 1 .. 2 : Winding(OutTriangle(k)) = 0 - Winding(InputVerts)

\* an input with one vertex in front has come out with its winding
C27_OneInKept ==
    /\ Straddles /\ Cardinality(InIdx) = 1
    /\ clipOut.n = 1
    /\ Winding(OutTriangle(1)) = Winding(InputVerts)

\* the numIn == 2 branch turns both triangles round
C27_TwoInWinding ==
    Straddles /\ Cardinality(InIdx) = 2 =>
        \A k \in 1 .. clipOut.n : Winding(OutTriangle(k)) \in { 0 - Winding(InputVerts), 0 }

----------------------------------------------------------------------------
(* The textured triangle with no texture bound, and the active batch,
   checked under SpecBatch *)

\* the step is an addTexturedTriangle call
IsAddTexturedTriangle ==
    /\ Len(calls') = Len(calls) + 1
    /\ calls'[Len(calls')].op = "addTexturedTriangle"

\* no uploadTexture since the last beginFrame has bound a texture: none was
\* called with valid arguments, or the GLCompute is not initialized
NoneBound == ~g_GLCompute.initialized \/ BoundAfter(Len(calls)) = NoKey

\* the three vertices a call hands over, as addTriangle stores them
StoredSolid(c) ==
    << GPUVertex(c.v0.pos.x, c.v0.pos.y, c.v0.pos.z, FromInt(1), c.v0.color, 0, 0, 0),
       GPUVertex(c.v1.pos.x, c.v1.pos.y, c.v1.pos.z, FromInt(1), c.v1.color, 0, 0, 0),
       GPUVertex(c.v2.pos.x, c.v2.pos.y, c.v2.pos.z, FromInt(1), c.v2.color, 0, 0, 0) >>

\* C28: a textured triangle added while no texture is bound goes to the end
\* of the solid batch with the textured flag 0 and uv (0, 0); the solid
\* counter goes up by one, the textured counter and the textured batches
\* stay as they are
C28_FallBackToSolid ==
    [][IsAddTexturedTriangle /\ NoneBound =>
          /\ g_GLCompute'.solidTriangleData =
                 g_GLCompute.solidTriangleData \o StoredSolid(calls'[Len(calls')])
          /\ g_GLCompute'.solidTrianglesThisFrame = g_GLCompute.solidTrianglesThisFrame + 1
          /\ g_GLCompute'.texturedTrianglesThisFrame = g_GLCompute.texturedTrianglesThisFrame
          /\ g_GLCompute'.texturedBatches = g_GLCompute.texturedBatches]_vars

\* a refused uploadTexture and then a textured triangle with uv other than
\* (0, 0) at two vertices: the triangle is the solid batch, and it is counted as solid
C28_Witness ==
    /\ g_GLCompute.initialized /\ pc = "submit"
    /\ Len(calls) = 2
    /\ calls[1].op = "uploadTexture" /\ calls[1].textureData = "nullptr"
    /\ calls[2].op = "addTexturedTriangle"
    /\ calls[2].v1.v # 0 /\ calls[2].v2.u # 0
    /\ g_GLCompute.solidTriangleData = StoredSolid(calls[2])
    /\ g_GLCompute.solidTrianglesThisFrame = 1
    /\ g_GLCompute.texturedTrianglesThisFrame = 0
    /\ g_GLCompute.texturedBatches = <<>>

\* C29: activeTextureBatch is null or points to a batch that is stored in
\* texturedBatches now, not to one that has been destroyed or moved
C29_ActiveBatchValid ==
    \/ g_GLCompute.activeTextureBatch = 0
    \/ /\ g_GLCompute.activeTextureBatch \in 1 .. Len(g_GLCompute.texturedBatches)
       /\ ~g_GLCompute.activeDangling

\* the list has grown to two batches after the first was bound, and the
\* first is bound again
C29_Witness ==
    /\ g_GLCompute.initialized /\ pc = "submit"
    /\ Len(calls) = 3
    /\ \A k \in 1 .. 3 : calls[k].op = "uploadTexture"
    /\ Len(g_GLCompute.texturedBatches) = 2
    /\ g_GLCompute.activeTextureBatch = 1
    /\ ~g_GLCompute.activeDangling

\* a frame has begun after a texture was bound and a triangle with it drawn:
\* no batch is left and the pointer is null
C29_NextFrame ==
    /\ g_GLCompute.initialized /\ pc = "submit"
    /\ calls = <<>>
    /\ issued = <<>>
    /\ g_GLCompute.texturedBatches = <<>>
    /\ g_GLCompute.activeTextureBatch = 0
    /\ g_GLCompute.pixelBuffer # [i \in Pixels |-> GpuClearColor]

----------------------------------------------------------------------------
(* The world matrix during and after Model::render, checked under SpecRender *)

\* the product Model::render assigns before it renders child mesh i
Composed(model, i) ==
    matrixMultiplicationMatrix(getWorldMatrix(model), getWorldMatrix(model.meshes[i]))

\* C30: while a child mesh's triangles are drawn SV_WorldMatrix is the
\* product of the model's world matrix and the mesh's own, and after
\* Model::render has returned SV_WorldMatrix is what it was before the call
C30_ModelTransformApplied ==
    lastDraw.kind = "render" =>
        /\ \A t \in 1 .. Len(lastDraw.draws) :
              lastDraw.draws[t].world = Composed(lastDraw.model, lastDraw.draws[t].mesh)
        /\ SV_WorldMatrix = lastDraw.before

\* what the code does: the triangles of a child mesh are drawn with the
\* mesh's own world matrix, and SV_WorldMatrix is restored afterwards
C30_MeshWorldInEffect ==
    lastDraw.kind = "render" =>
        /\ \A t \in 1 .. Len(lastDraw.draws) :
              lastDraw.draws[t].world =
                  getWorldMatrix(lastDraw.model.meshes[lastDraw.draws[t].mesh])
        /\ SV_WorldMatrix = lastDraw.before

\* a scaled and moved model was rendered after an object had left its own
\* world matrix in SV_WorldMatrix, and both of its meshes drew triangles
C30_Rendered ==
    /\ lastDraw.kind = "render"
    /\ lastDraw.before # MatrixIdentity
    /\ lastDraw.model.visible
    /\ getWorldMatrix(lastDraw.model) # MatrixIdentity
    /\ Len(lastDraw.draws) = 3
    /\ lastDraw.draws[1].mesh = 1 /\ lastDraw.draws[3].mesh = 2
    /\ lastDraw.draws[1].world # Composed(lastDraw.model, 1)
    /\ SV_WorldMatrix = lastDraw.before

====
